---- MODULE Spec2Model ----
(***************************************************************************)
(* Transformer dashboard: the Pinia store (stores/transformerStore.ts),    *)
(* its localStorage persistence, and the App.vue storage-event bridge that *)
(* re-hydrates the store of every other tab.                               *)
(*                                                                         *)
(* Strings are sequences of one-character strings, so that toLowerCase and *)
(* includes are computed character by character.  A localStorage item is   *)
(* the serialised text: JSON.stringify produces its member list with every *)
(* value written as JSON tokens, JSON.parse reads the tokens back.         *)
(***************************************************************************)
EXTENDS Integers, Sequences, FiniteSets, TLC

VARIABLES
    open,                    \* the tabs that show the dashboard
    transformers,            \* per tab: ref<Transformer[]>
    selectedTransformerIds,  \* per tab: ref<number[]>
    tableSearch,             \* per tab: ref<string>
    healthFilter,            \* per tab: ref<TransformerHealth | null>
    hoveredTransformerId,    \* per tab: ref<number | null>
    localStorage,            \* window.localStorage, shared by the tabs: key -> item
    pending,                 \* per tab: storage events dispatched but not yet handled
    lastWriter,              \* who called localStorage.setItem(STORAGE_KEY, ..) last
    last,                    \* history: the operation that ran last, and the one before
    nops,                    \* number of user operations so far (bounded)
    rendered,                \* the list the table view read from filteredTransformers
    mounted,                 \* the tabs whose App component is mounted
    listeners,               \* per tab: 'storage' listeners registered on window
    isDark,                  \* per tab: ref<boolean> of composables/useTheme.ts
    chart                    \* per tab: what TransformerChart.vue computes and draws

vars == <<open, transformers, selectedTransformerIds, tableSearch, healthFilter,
          hoveredTransformerId, localStorage, pending, lastWriter, last, nops,
          rendered, mounted, listeners, isDark, chart>>

-----------------------------------------------------------------------------
(* Bounds of the model *)

NumTabs == 2
MaxOps == 3
MaxTabOps == 2
MaxPending == 1
MaxListLen == 2
MaxFilterOps == 2
MaxViewOps == 3
MaxBridgeOps == 2
MaxChartAssets == 2
MaxChartOps == 2
MaxQuotaOps == 2
MaxRaceOps == 3
MaxGestureOps == 3

Tabs == 1..NumTabs

-----------------------------------------------------------------------------
(* Strings *)

UpperCase == <<"A","B","C","D","E","F","G","H","I","J","K","L","M",
               "N","O","P","Q","R","S","T","U","V","W","X","Y","Z">>
LowerCase == <<"a","b","c","d","e","f","g","h","i","j","k","l","m",
               "n","o","p","q","r","s","t","u","v","w","x","y","z">>

LowerChar(c) ==
    IF \E i \in 1..Len(UpperCase) : UpperCase[i] = c
    THEN LowerCase[CHOOSE i \in 1..Len(UpperCase) : UpperCase[i] = c]
    ELSE c

\* String.prototype.toLowerCase
toLowerCase(s) == [i \in 1..Len(s) |-> LowerChar(s[i])]

\* String.prototype.includes: needle occurs in hay as a contiguous substring
includes(hay, needle) ==
    \E i \in 0..(Len(hay) - Len(needle)) :
        \A j \in 1..Len(needle) : hay[i + j] = needle[j]

\* Array.prototype.includes on an array of numbers
arrayIncludes(arr, x) == \E i \in 1..Len(arr) : arr[i] = x

SetOf(arr) == {arr[i] : i \in 1..Len(arr)}

-----------------------------------------------------------------------------
(* types.ts *)

Excellent == <<"E","x","c","e","l","l","e","n","t">>
Good      == <<"G","o","o","d">>
Fair      == <<"F","a","i","r">>
Poor      == <<"P","o","o","r">>
Critical  == <<"C","r","i","t","i","c","a","l">>

TransformerHealth == {Excellent, Good, Fair, Poor, Critical}

\* the JavaScript null of "TransformerHealth | null": no string of characters
Null == <<"null">>

\* the JavaScript null of "number | null"; asset ids are positive
NullId == 0

-----------------------------------------------------------------------------
(* services/transformerData.ts *)

\* Number(reading.voltage): the sample file stores each voltage as decimal text
Digits == <<"0","1","2","3","4","5","6","7","8","9">>

DigitValue(d) == (CHOOSE i \in 1..Len(Digits) : Digits[i] = d) - 1

RECURSIVE Number(_)
Number(text) ==
    IF text = <<>> THEN 0
    ELSE IF Head(text) = "-" THEN 0 - Number(Tail(text))
    ELSE Number(SubSeq(text, 1, Len(text) - 1)) * 10 + DigitValue(text[Len(text)])

\* sample-data/sampledata.json: the bundled file is not part of the sources read
\* here; this is a small dataset of the same shape (RawTransformer[]), voltages as
\* text and readings not in chronological order
sampleData ==
    << [assetId |-> 1, name |-> <<"A","l","f","a">>,
        region |-> <<"N","o","r","t","h">>, health |-> Good,
        lastTenVoltageReadings |->
            << [timestamp |-> <<"0","2">>, voltage |-> <<"9","0">>],
               [timestamp |-> <<"0","1">>, voltage |-> <<"7","0">>] >>],
       [assetId |-> 2, name |-> <<"B","e","t","a">>,
        region |-> <<"S","o","u","t","h">>, health |-> Critical,
        lastTenVoltageReadings |->
            << [timestamp |-> <<"0","1">>, voltage |-> <<"8","0">>],
               [timestamp |-> <<"0","2">>, voltage |-> <<"8","5">>] >>],
       [assetId |-> 3, name |-> <<"C","R","I","T","x">>,
        region |-> <<"E","a","s","t">>, health |-> Poor,
        lastTenVoltageReadings |->
            << [timestamp |-> <<"0","1">>, voltage |-> <<"6","0">>] >>] >>

\* the map of loadTransformers(): raw records with every voltage coerced to a number
normalize(raw) ==
    [i \in 1..Len(raw) |->
        [assetId |-> raw[i].assetId,
         name |-> raw[i].name,
         region |-> raw[i].region,
         health |-> raw[i].health,
         lastTenVoltageReadings |->
            [k \in 1..Len(raw[i].lastTenVoltageReadings) |->
                [timestamp |-> raw[i].lastTenVoltageReadings[k].timestamp,
                 voltage |-> Number(raw[i].lastTenVoltageReadings[k].voltage)]]]]

\* loadTransformers() on the bundled file
loadTransformers == normalize(sampleData)

-----------------------------------------------------------------------------
(* window.localStorage and JSON *)

\* const STORAGE_KEY of stores/transformerStore.ts
STORAGE_KEY == "transformer-dashboard-state"
\* const STORAGE_KEY of composables/useTheme.ts
THEME_STORAGE_KEY == "transformer-dashboard-theme"

StorageKeys == {STORAGE_KEY, THEME_STORAGE_KEY}

\* An item of localStorage is text.  kind "none": getItem returns null;
\* kind "text": a string that is not JSON; kind "json": the text of a JSON object,
\* kept as its member list, every value a sequence of JSON tokens.
NoItem == [kind |-> "none", members |-> <<>>]
NotJson == [kind |-> "text", members |-> <<>>]
JsonObject(members) == [kind |-> "json", members |-> members]

Quote == "\""

\* JSON.stringify of a number[], a string, a TransformerHealth | null
stringifyArray(ids) == <<"[">> \o [i \in 1..Len(ids) |-> Digits[ids[i] + 1]] \o <<"]">>
stringifyString(str) == <<Quote>> \o str \o <<Quote>>
stringifyNullable(h) == IF h = Null THEN <<"null">> ELSE stringifyString(h)

\* JSON.parse of the tokens of one value
parseArray(tokens) == [i \in 1..(Len(tokens) - 2) |-> DigitValue(tokens[i + 1])]
parseString(tokens) == SubSeq(tokens, 2, Len(tokens) - 1)
parseNullable(tokens) == IF tokens = <<"null">> THEN Null ELSE parseString(tokens)

\* JSON.parse(raw) throws a SyntaxError when raw is not JSON
parseThrows(item) == item.kind = "text"

\* parsed[key] !== undefined: the object has the member (the last one wins)
hasMember(item, key) == \E i \in 1..Len(item.members) : item.members[i].k = key

memberTokens(item, key) ==
    LET i == CHOOSE n \in 1..Len(item.members) :
                 /\ item.members[n].k = key
                 /\ \A m \in (n + 1)..Len(item.members) : item.members[m].k # key
    IN item.members[i].v

-----------------------------------------------------------------------------
(* stores/transformerStore.ts *)

PersistedOps == {"setTableSearch", "setHealthFilter", "toggleTransformerSelection",
                 "setSelectedTransformerIds"}

\* getDefaultState(): everything loaded and selected, no filter, no hover
getDefaultState ==
    [transformers |-> loadTransformers,
     selectedTransformerIds |->
         [i \in 1..Len(loadTransformers) |-> loadTransformers[i].assetId],
     tableSearch |-> <<>>,
     healthFilter |-> Null,
     hoveredTransformerId |-> NullId]

\* What loadPersistedState returns: null, or an object whose three properties may
\* each be undefined.  hasX is "property X is not undefined"; threw is an exception
\* leaving the function.
NoPersistedState ==
    [isNull |-> TRUE, threw |-> FALSE,
     hasIds |-> FALSE, selectedTransformerIds |-> <<>>,
     hasSearch |-> FALSE, tableSearch |-> <<>>,
     hasHealth |-> FALSE, healthFilter |-> Null]

\* the object built from JSON.parse(raw): the three properties copied over
parsedState(item) ==
    LET hasI == hasMember(item, "selectedTransformerIds")
        hasS == hasMember(item, "tableSearch")
        hasH == hasMember(item, "healthFilter")
    IN [isNull |-> FALSE, threw |-> FALSE,
        hasIds |-> hasI,
        selectedTransformerIds |->
            IF hasI THEN parseArray(memberTokens(item, "selectedTransformerIds")) ELSE <<>>,
        hasSearch |-> hasS,
        tableSearch |->
            IF hasS THEN parseString(memberTokens(item, "tableSearch")) ELSE <<>>,
        hasHealth |-> hasH,
        healthFilter |->
            IF hasH THEN parseNullable(memberTokens(item, "healthFilter")) ELSE Null]

\* loadPersistedState with the try/catch left out: the SyntaxError of JSON.parse
\* leaves the function
loadPersistedState_noCatch(storage) ==
    LET raw == storage[STORAGE_KEY] IN
    IF raw.kind = "none" THEN NoPersistedState
    ELSE IF parseThrows(raw) THEN [NoPersistedState EXCEPT !.threw = TRUE]
    ELSE parsedState(raw)

\* loadPersistedState(): getItem, "if (!raw) return null", JSON.parse in try/catch
loadPersistedState(storage) ==
    LET raw == storage[STORAGE_KEY] IN
    IF raw.kind = "none" THEN NoPersistedState
    ELSE IF parseThrows(raw) THEN NoPersistedState
    ELSE parsedState(raw)

\* persistState that leaves the selection out of the object it writes
persistState_withoutSelection(ids, search, filter) ==
    JsonObject(<< [k |-> "tableSearch", v |-> stringifyString(search)],
                  [k |-> "healthFilter", v |-> stringifyNullable(filter)] >>)

\* persistState(): the text handed to localStorage.setItem(STORAGE_KEY, ..)
persistState(ids, search, filter) ==
    JsonObject(<< [k |-> "selectedTransformerIds", v |-> stringifyArray(ids)],
                  [k |-> "tableSearch", v |-> stringifyString(search)],
                  [k |-> "healthFilter", v |-> stringifyNullable(filter)] >>)

\* initial refs that take an empty stored selection for a missing one
initialState_emptyAsDefault(storage) ==
    LET d == getDefaultState
        p == loadPersistedState(storage)
    IN [threw |-> p.threw,
        transformers |-> d.transformers,
        selectedTransformerIds |->
            IF ~p.isNull /\ p.hasIds /\ p.selectedTransformerIds # <<>>
            THEN p.selectedTransformerIds ELSE d.selectedTransformerIds,
        tableSearch |->
            IF ~p.isNull /\ p.hasSearch THEN p.tableSearch ELSE d.tableSearch,
        healthFilter |->
            IF ~p.isNull /\ p.hasHealth /\ p.healthFilter # Null
            THEN p.healthFilter ELSE d.healthFilter,
        hoveredTransformerId |-> NullId]

\* the initial refs of useTransformerStore: "persistedState?.x ?? defaultState.x"
initialState(storage) ==
    LET d == getDefaultState
        p == loadPersistedState(storage)
    IN [threw |-> p.threw,
        transformers |-> d.transformers,
        selectedTransformerIds |->
            IF ~p.isNull /\ p.hasIds
            THEN p.selectedTransformerIds ELSE d.selectedTransformerIds,
        tableSearch |->
            IF ~p.isNull /\ p.hasSearch
            THEN p.tableSearch ELSE d.tableSearch,
        healthFilter |->
            IF ~p.isNull /\ p.hasHealth /\ p.healthFilter # Null
            THEN p.healthFilter ELSE d.healthFilter,
        hoveredTransformerId |-> NullId]

\* a search that does not look at the region
matchesSearch_noRegion(t, q) ==
    \/ q = <<>>
    \/ includes(toLowerCase(t.name), q)
    \/ includes(toLowerCase(t.health), q)

\* the filter callback of filteredTransformers for search text q (lowercased) and
\* health filter h; "!q" is true of the empty string, "!h" of null and of ""
matchesSearch(t, q) ==
    \/ q = <<>>
    \/ includes(toLowerCase(t.name), q)
    \/ includes(toLowerCase(t.region), q)
    \/ includes(toLowerCase(t.health), q)

matchesHealth(t, h) == (h = Null \/ h = <<>>) \/ t.health = h

\* a filter that keeps what matches the search or the health filter
filterTransformers_either(list, search, h) ==
    LET q == toLowerCase(search)
        Keep(t) == matchesSearch(t, q) \/ matchesHealth(t, h)
    IN SelectSeq(list, Keep)

\* the computed filteredTransformers; Array.prototype.filter is SelectSeq
filterTransformers(list, search, h) ==
    LET q == toLowerCase(search)
        Keep(t) == matchesSearch(t, q) /\ matchesHealth(t, h)
    IN SelectSeq(list, Keep)

filteredTransformers(t) ==
    filterTransformers(transformers[t], tableSearch[t], healthFilter[t])

-----------------------------------------------------------------------------
(* components/TransformerChart.vue: what the chart computes from the store *)

\* the characters of an ISO timestamp in code-unit order, for the < of strings
Chars == <<"-","0","1","2","3","4","5","6","7","8","9",":","T","Z">>

CharCode(c) == CHOOSE i \in 1..Len(Chars) : Chars[i] = c

\* a < b on strings
RECURSIVE lessThan(_, _)
lessThan(a, b) ==
    IF b = <<>> THEN FALSE
    ELSE IF a = <<>> THEN TRUE
    ELSE IF Head(a) = Head(b) THEN lessThan(Tail(a), Tail(b))
    ELSE CharCode(Head(a)) < CharCode(Head(b))

\* arr with the string x put after the last element that is not greater than it
RECURSIVE insertSorted(_, _)
insertSorted(arr, x) ==
    IF arr = <<>> THEN <<x>>
    ELSE IF lessThan(x, arr[Len(arr)])
         THEN Append(insertSorted(SubSeq(arr, 1, Len(arr) - 1), x), arr[Len(arr)])
         ELSE Append(arr, x)

\* Array.prototype.sort with the comparator (a < b ? -1 : a > b ? 1 : 0)
RECURSIVE sort(_)
sort(arr) ==
    IF arr = <<>> THEN <<>>
    ELSE insertSorted(sort(SubSeq(arr, 1, Len(arr) - 1)), arr[Len(arr)])

\* the computed sortedTimestamps: the timestamps of the first filtered transformer
sortedTimestamps(filtered) ==
    IF filtered = <<>> THEN <<>>
    ELSE sort([k \in 1..Len(filtered[1].lastTenVoltageReadings) |->
                  filtered[1].lastTenVoltageReadings[k].timestamp])

\* allTransformers.flatMap(t => t.lastTenVoltageReadings.map(r => r.voltage))
RECURSIVE allVoltages(_)
allVoltages(all) ==
    IF all = <<>> THEN <<>>
    ELSE [k \in 1..Len(Head(all).lastTenVoltageReadings) |->
             Head(all).lastTenVoltageReadings[k].voltage] \o allVoltages(Tail(all))

\* Math.min(...values) and Math.max(...values) of a non-empty array
MathMin(values) ==
    CHOOSE v \in SetOf(values) : \A w \in SetOf(values) : v <= w
MathMax(values) ==
    CHOOSE v \in SetOf(values) : \A w \in SetOf(values) : w <= v

\* A domain is kept in tenths of a volt, so that a tenth of a whole number of
\* volts is exact: min * 0.1 is min tenths, and the padding 10 is 100 tenths.
voltageDomain_noFallback(all) ==
    LET values == allVoltages(all)
        min == MathMin(values)
        max == MathMax(values)
    IN IF values = <<>> THEN [min |-> 0, max |-> 1000]
       ELSE IF min = max
            THEN [min |-> 10 * min - min, max |-> 10 * max + min]
            ELSE [min |-> 10 * min - (max - min), max |-> 10 * max + (max - min)]

\* the computed voltageDomain, in tenths of a volt
voltageDomain(all) ==
    LET values == allVoltages(all)
        min == MathMin(values)
        max == MathMax(values)
    IN IF values = <<>> THEN [min |-> 0, max |-> 1000]
       ELSE IF min = max
            THEN LET padding == IF min # 0 THEN min ELSE 100
                 IN [min |-> 10 * min - padding, max |-> 10 * max + padding]
            ELSE LET range == max - min
                     padding == range
                 IN [min |-> 10 * min - padding, max |-> 10 * max + padding]

\* Math.ceil(tenths / 10 / divisor)
ceilOf(tenths, divisor) == 0 - ((0 - tenths) \div (10 * divisor))

yAxisMax_nextStep(domain) == ((domain.max \div 50000) + 1) * 5000

\* the computed yAxisMax, in volts: Math.ceil(voltageDomain.max / 5000) * 5000
yAxisMax(domain) == ceilOf(domain.max, 5000) * 5000

\* a point of a series: a voltage, or the null that Chart.js draws as a gap
NullPoint == [isNull |-> TRUE, value |-> 0]
Point(voltage) == [isNull |-> FALSE, value |-> voltage]

\* t.lastTenVoltageReadings.find(r => r.timestamp === ts): the index of the first
\* such reading, 0 when find returns undefined
findReading(readings, ts) ==
    IF \E k \in 1..Len(readings) : readings[k].timestamp = ts
    THEN CHOOSE k \in 1..Len(readings) :
             /\ readings[k].timestamp = ts
             /\ \A j \in 1..(k - 1) : readings[j].timestamp # ts
    ELSE 0

dataPoint_zeroForMissing(readings, ts) ==
    LET reading == findReading(readings, ts)
    IN IF reading # 0 THEN Point(readings[reading].voltage) ELSE Point(0)

\* reading ? reading.voltage : null
dataPoint(readings, ts) ==
    LET reading == findReading(readings, ts)
    IN IF reading # 0 THEN Point(readings[reading].voltage) ELSE NullPoint

\* the colours of the lines; palette[i] of the source is PaletteAt(i)
palette == <<"#0ea5e9", "#22c55e", "#f97316", "#e11d48", "#8b5cf6">>

\* palette[index]: undefined when index is not an index of the array
PaletteAt(index) ==
    IF index \in 0..(Len(palette) - 1) THEN palette[index + 1] ELSE "undefined"

\* the % of JavaScript, whose result has the sign of the dividend
Remainder(a, b) == IF a >= 0 THEN a % b ELSE 0 - ((0 - a) % b)

\* the datasets of the computed chartData: one per filtered and selected
\* transformer; index counts from 0 in the array that filter() returned
chartData(filtered, selectedIds, timestamps) ==
    LET Checked(t) == arrayIncludes(selectedIds, t.assetId)
        shown == SelectSeq(filtered, Checked)
    IN [n \in 1..Len(shown) |->
           LET index == n - 1 IN
           [label |-> shown[n].name,
            data |-> [k \in 1..Len(timestamps) |->
                         dataPoint(shown[n].lastTenVoltageReadings, timestamps[k])],
            baseColor |-> PaletteAt(Remainder(index, Len(palette)))]]

\* transformers.findIndex(t => t.assetId === assetId), counting from 0; -1 when
\* there is none
findIndex(filtered, assetId) ==
    IF \E i \in 1..Len(filtered) : filtered[i].assetId = assetId
    THEN (CHOOSE i \in 1..Len(filtered) :
              /\ filtered[i].assetId = assetId
              /\ \A j \in 1..(i - 1) : filtered[j].assetId # assetId) - 1
    ELSE -1

\* getTransformerColor: the colour at the position in the filtered list
getTransformerColor(filtered, assetId) ==
    PaletteAt(Remainder(findIndex(filtered, assetId), Len(palette)))

\* the footer of the template: one checkbox per filtered transformer, in the
\* colour getTransformerColor gives it, checked when the transformer is selected
checkboxes(filtered, selectedIds) ==
    [i \in 1..Len(filtered) |->
        [inputId |-> filtered[i].assetId,
         borderColor |-> getTransformerColor(filtered, filtered[i].assetId),
         modelValue |-> arrayIncludes(selectedIds, filtered[i].assetId)]]

\* any selected id shows the chart, filtered out or not
hasSelectedFilteredTransformers_anySelected(filtered, selectedIds) ==
    selectedIds # <<>>

\* the computed hasSelectedFilteredTransformers: the v-if of the template shows
\* the chart when it is true and the empty state when it is false
hasSelectedFilteredTransformers(filtered, selectedIds) ==
    \E i \in 1..Len(filtered) : arrayIncludes(selectedIds, filtered[i].assetId)

TransformerChart_domainOfFiltered(all, search, h, selectedIds) ==
    LET filtered == filterTransformers(all, search, h)
        timestamps == sortedTimestamps(filtered)
        domain == voltageDomain(filtered)
    IN [sortedTimestamps |-> timestamps,
        voltageDomain |-> domain,
        yAxisMax |-> yAxisMax(domain),
        datasets |-> chartData(filtered, selectedIds, timestamps),
        checkboxes |-> checkboxes(filtered, selectedIds),
        hasSelectedFilteredTransformers |->
            hasSelectedFilteredTransformers(filtered, selectedIds)]

\* the computed values of the chart component, from the state of its store
TransformerChart(all, search, h, selectedIds) ==
    LET filtered == filterTransformers(all, search, h)
        timestamps == sortedTimestamps(filtered)
        domain == voltageDomain(all)
    IN [sortedTimestamps |-> timestamps,
        voltageDomain |-> domain,
        yAxisMax |-> yAxisMax(domain),
        datasets |-> chartData(filtered, selectedIds, timestamps),
        checkboxes |-> checkboxes(filtered, selectedIds),
        hasSelectedFilteredTransformers |->
            hasSelectedFilteredTransformers(filtered, selectedIds)]

-----------------------------------------------------------------------------
(* Inputs of the operations *)

SearchInputs == { <<>>, <<"c","r","i","t">>, <<"N","O">> }
HealthInputs == { Null, Good, Critical }
\* the loaded asset ids and 9, the id of no loaded transformer
ToggleInputs == SetOf(getDefaultState.selectedTransformerIds) \cup {9}
HoverInputs == { NullId, 1, 2 }
SelectionInputs == { <<>>, <<2>>, <<3, 1>> }

\* What may sit under STORAGE_KEY without this build having written it: nothing,
\* text that is not JSON, an object with none, some or all of the three fields
ForeignItems ==
    { NoItem,
      NotJson,
      JsonObject(<<>>),
      JsonObject(<< [k |-> "tableSearch", v |-> stringifyString(<<"c","r","i","t">>)] >>),
      JsonObject(<< [k |-> "healthFilter", v |-> <<"null">>],
                    [k |-> "selectedTransformerIds", v |-> stringifyArray(<<2>>)] >>),
      JsonObject(<< [k |-> "healthFilter", v |-> stringifyString(Good)],
                    [k |-> "tableSearch", v |-> stringifyString(<<>>)],
                    [k |-> "selectedTransformerIds", v |-> stringifyArray(<<>>)] >>) }

-----------------------------------------------------------------------------
(* State machine *)

\* the history record written by the operation op of tab t on asset id
\* and, for a persisted mutation, the value arg it was called with
RecordOf(op, t, id, threw, arg) ==
    [op |-> op, tab |-> t, id |-> id, threw |-> threw, arg |-> arg,
     prevOp |-> last.op, prevTab |-> last.tab, prevId |-> last.id,
     preIds |-> IF t \in Tabs THEN selectedTransformerIds[t] ELSE <<>>,
     replacedBy |-> IF last.prevOp = "setSelectedTransformerIds"
                    THEN last.prevTab ELSE 0,
     prevPreIds |-> IF last.op = "setSelectedTransformerIds"
                    THEN last.preIds ELSE <<>>,
     preItem |-> localStorage[STORAGE_KEY]]

Record(op, t, id, threw) == RecordOf(op, t, id, threw, <<>>)

\* around the store: the App component and the theme stay as they are, and the
\* chart is not drawn anew
SameApp == UNCHANGED <<mounted, listeners, isDark, chart>>

\* localStorage.setItem(key, item) in tab t: the item is replaced and, when its
\* text changed, every other open tab is sent a storage event for the key
canSetItem(t, key, item) ==
    item # localStorage[key] =>
        \A u \in open \ {t} : Len(pending[u]) < MaxPending

setItem(t, key, item) ==
    /\ localStorage' = [localStorage EXCEPT ![key] = item]
    /\ pending' = [u \in Tabs |->
                      IF u \in open /\ u # t /\ item # localStorage[key]
                      THEN Append(pending[u], key) ELSE pending[u]]

\* every tab constructs its store from what localStorage holds at start
InitStores(tabs, items) ==
    /\ open = tabs
    /\ localStorage \in
          {[k \in StorageKeys |-> IF k = STORAGE_KEY THEN item ELSE NoItem] :
               item \in items}
    /\ transformers = [t \in Tabs |-> initialState(localStorage).transformers]
    /\ selectedTransformerIds =
          [t \in Tabs |-> initialState(localStorage).selectedTransformerIds]
    /\ tableSearch = [t \in Tabs |-> initialState(localStorage).tableSearch]
    /\ healthFilter = [t \in Tabs |-> initialState(localStorage).healthFilter]
    /\ hoveredTransformerId =
          [t \in Tabs |-> initialState(localStorage).hoveredTransformerId]
    /\ pending = [t \in Tabs |-> <<>>]
    /\ lastWriter = 0
    /\ last = [op |-> "useTransformerStore", tab |-> 0, id |-> NullId,
               threw |-> initialState(localStorage).threw, arg |-> <<>>,
               prevOp |-> "none", prevTab |-> 0, prevId |-> NullId,
               preIds |-> <<>>, replacedBy |-> 0, prevPreIds |-> <<>>,
               preItem |-> localStorage[STORAGE_KEY]]
    /\ nops = 0
    /\ rendered = <<>>
    /\ mounted = tabs
    /\ listeners = [t \in Tabs |-> IF t \in tabs THEN 1 ELSE 0]
    /\ isDark = [t \in Tabs |-> FALSE]
    /\ chart = [t \in Tabs |->
                   TransformerChart(transformers[t], tableSearch[t], healthFilter[t],
                                    selectedTransformerIds[t])]

\* one tab, and whatever a previous session or another writer left in localStorage
Init == InitStores({1}, ForeignItems)

\* a page (re)load of tab t: a fresh useTransformerStore() reading localStorage
Reload(t) ==
    /\ LET s == initialState(localStorage) IN
        /\ transformers' = [transformers EXCEPT ![t] = s.transformers]
        /\ selectedTransformerIds' =
              [selectedTransformerIds EXCEPT ![t] = s.selectedTransformerIds]
        /\ tableSearch' = [tableSearch EXCEPT ![t] = s.tableSearch]
        /\ healthFilter' = [healthFilter EXCEPT ![t] = s.healthFilter]
        /\ hoveredTransformerId' =
              [hoveredTransformerId EXCEPT ![t] = s.hoveredTransformerId]
        /\ last' = Record("useTransformerStore", t, NullId, s.threw)
    /\ pending' = [pending EXCEPT ![t] = <<>>]
    /\ nops' = nops + 1
    /\ UNCHANGED <<open, localStorage, lastWriter, rendered>>
    /\ SameApp

\* String.prototype.trim, for texts whose only white space is the space
RECURSIVE trimStart(_)
trimStart(str) ==
    IF str # <<>> /\ Head(str) = " " THEN trimStart(Tail(str)) ELSE str

RECURSIVE trimEnd(_)
trimEnd(str) ==
    IF str # <<>> /\ str[Len(str)] = " "
    THEN trimEnd(SubSeq(str, 1, Len(str) - 1)) ELSE str

\* setTableSearch that trims the text before it stores it
setTableSearch_trimmed(t, search) ==
    LET trimmed == trimEnd(trimStart(search))
        item == persistState(selectedTransformerIds[t], trimmed, healthFilter[t])
    IN
    /\ canSetItem(t, STORAGE_KEY, item)
    /\ tableSearch' = [tableSearch EXCEPT ![t] = trimmed]
    /\ setItem(t, STORAGE_KEY, item)
    /\ lastWriter' = t
    /\ last' = RecordOf("setTableSearch", t, NullId, FALSE, search)
    /\ nops' = nops + 1
    /\ UNCHANGED <<open, transformers, selectedTransformerIds, healthFilter,
                   hoveredTransformerId, rendered>>
    /\ SameApp

setTableSearch(t, search) ==
    LET item == persistState(selectedTransformerIds[t], search, healthFilter[t]) IN
    /\ canSetItem(t, STORAGE_KEY, item)
    /\ tableSearch' = [tableSearch EXCEPT ![t] = search]
    /\ setItem(t, STORAGE_KEY, item)
    /\ lastWriter' = t
    /\ last' = RecordOf("setTableSearch", t, NullId, FALSE, search)
    /\ nops' = nops + 1
    /\ UNCHANGED <<open, transformers, selectedTransformerIds, healthFilter,
                   hoveredTransformerId, rendered>>
    /\ SameApp

setHealthFilter(t, filter) ==
    LET item == persistState(selectedTransformerIds[t], tableSearch[t], filter) IN
    /\ canSetItem(t, STORAGE_KEY, item)
    /\ healthFilter' = [healthFilter EXCEPT ![t] = filter]
    /\ setItem(t, STORAGE_KEY, item)
    /\ lastWriter' = t
    /\ last' = RecordOf("setHealthFilter", t, NullId, FALSE, filter)
    /\ nops' = nops + 1
    /\ UNCHANGED <<open, transformers, selectedTransformerIds, tableSearch,
                   hoveredTransformerId, rendered>>
    /\ SameApp

setHoveredTransformer_persisted(t, assetId) ==
    LET item == JsonObject(Append(persistState(selectedTransformerIds[t], tableSearch[t],
                                               healthFilter[t]).members,
                                  [k |-> "hoveredTransformerId",
                                   v |-> stringifyArray(<<assetId>>)])) IN
    /\ canSetItem(t, STORAGE_KEY, item)
    /\ hoveredTransformerId' = [hoveredTransformerId EXCEPT ![t] = assetId]
    /\ setItem(t, STORAGE_KEY, item)
    /\ lastWriter' = t
    /\ last' = Record("setHoveredTransformer", t, assetId, FALSE)
    /\ nops' = nops + 1
    /\ UNCHANGED <<open, transformers, selectedTransformerIds, tableSearch, healthFilter,
                   rendered>>
    /\ SameApp

setHoveredTransformer(t, assetId) ==
    /\ hoveredTransformerId' = [hoveredTransformerId EXCEPT ![t] = assetId]
    /\ last' = Record("setHoveredTransformer", t, assetId, FALSE)
    /\ nops' = nops + 1
    /\ UNCHANGED <<open, transformers, selectedTransformerIds, tableSearch, healthFilter,
                   localStorage, pending, lastWriter, rendered>>
    /\ SameApp

\* a toggle that never removes
toggledIds_alwaysAdd(ids, assetId) == ids \o <<assetId>>

\* a toggle that deselects everything when it deselects one
toggledIds_clears(ids, assetId) ==
    IF arrayIncludes(ids, assetId) THEN <<>> ELSE ids \o <<assetId>>

\* the new array of toggleTransformerSelection
toggledIds(ids, assetId) ==
    IF arrayIncludes(ids, assetId)
    THEN LET Other(id) == id # assetId IN SelectSeq(ids, Other)
    ELSE ids \o <<assetId>>

toggleTransformerSelection(t, assetId) ==
    LET ids == toggledIds(selectedTransformerIds[t], assetId)
        item == persistState(ids, tableSearch[t], healthFilter[t])
    IN
    /\ canSetItem(t, STORAGE_KEY, item)
    /\ selectedTransformerIds' = [selectedTransformerIds EXCEPT ![t] = ids]
    /\ setItem(t, STORAGE_KEY, item)
    /\ lastWriter' = t
    /\ last' = Record("toggleTransformerSelection", t, assetId, FALSE)
    /\ nops' = nops + 1
    /\ UNCHANGED <<open, transformers, tableSearch, healthFilter, hoveredTransformerId,
                   rendered>>
    /\ SameApp

setSelectedTransformerIds(t, ids) ==
    LET item == persistState(ids, tableSearch[t], healthFilter[t]) IN
    /\ canSetItem(t, STORAGE_KEY, item)
    /\ selectedTransformerIds' = [selectedTransformerIds EXCEPT ![t] = ids]
    /\ setItem(t, STORAGE_KEY, item)
    /\ lastWriter' = t
    /\ last' = RecordOf("setSelectedTransformerIds", t, NullId, FALSE, ids)
    /\ nops' = nops + 1
    /\ UNCHANGED <<open, transformers, tableSearch, healthFilter, hoveredTransformerId,
                   rendered>>
    /\ SameApp

\* hydrate as a patch of a full state built on the defaults: a field the object
\* lacks is reset to its default and the hover is cleared
hydratedState_patchAll(t, storage) ==
    LET p == loadPersistedState(storage)
        d == getDefaultState
    IN
    IF p.isNull
    THEN [threw |-> p.threw,
          selectedTransformerIds |-> selectedTransformerIds[t],
          tableSearch |-> tableSearch[t],
          healthFilter |-> healthFilter[t],
          transformers |-> transformers[t],
          hoveredTransformerId |-> hoveredTransformerId[t]]
    ELSE [threw |-> p.threw,
          selectedTransformerIds |->
              IF p.hasIds THEN p.selectedTransformerIds ELSE d.selectedTransformerIds,
          tableSearch |-> IF p.hasSearch THEN p.tableSearch ELSE d.tableSearch,
          healthFilter |-> IF p.hasHealth THEN p.healthFilter ELSE Null,
          transformers |-> d.transformers,
          hoveredTransformerId |-> NullId]

\* hydrate that re-reads the selection only
hydratedState_keepsSelection(t, storage) ==
    LET p == loadPersistedState(storage) IN
    [threw |-> p.threw,
     selectedTransformerIds |-> selectedTransformerIds[t],
     tableSearch |->
         IF ~p.isNull /\ p.hasSearch THEN p.tableSearch ELSE tableSearch[t],
     healthFilter |->
         IF ~p.isNull /\ p.hasHealth THEN p.healthFilter ELSE healthFilter[t],
     transformers |-> transformers[t],
     hoveredTransformerId |-> hoveredTransformerId[t]]

hydratedState_idsOnly(t, storage) ==
    LET p == loadPersistedState(storage) IN
    [threw |-> p.threw,
     selectedTransformerIds |->
         IF ~p.isNull /\ p.hasIds
         THEN p.selectedTransformerIds ELSE selectedTransformerIds[t],
     tableSearch |-> tableSearch[t],
     healthFilter |-> healthFilter[t],
     transformers |-> transformers[t],
     hoveredTransformerId |-> hoveredTransformerId[t]]

\* the refs after hydrateFromStorage in tab t
hydratedState(t, storage) ==
    LET p == loadPersistedState(storage) IN
    [threw |-> p.threw,
     selectedTransformerIds |->
         IF ~p.isNull /\ p.hasIds
         THEN p.selectedTransformerIds ELSE selectedTransformerIds[t],
     tableSearch |->
         IF ~p.isNull /\ p.hasSearch THEN p.tableSearch ELSE tableSearch[t],
     healthFilter |->
         IF ~p.isNull /\ p.hasHealth THEN p.healthFilter ELSE healthFilter[t],
     transformers |-> transformers[t],
     hoveredTransformerId |-> hoveredTransformerId[t]]

hydrate(t) ==
    LET s == hydratedState(t, localStorage) IN
    /\ selectedTransformerIds' =
          [selectedTransformerIds EXCEPT ![t] = s.selectedTransformerIds]
    /\ tableSearch' = [tableSearch EXCEPT ![t] = s.tableSearch]
    /\ healthFilter' = [healthFilter EXCEPT ![t] = s.healthFilter]
    /\ transformers' = [transformers EXCEPT ![t] = s.transformers]
    /\ hoveredTransformerId' =
          [hoveredTransformerId EXCEPT ![t] = s.hoveredTransformerId]
    /\ last' = Record("hydrateFromStorage", t, NullId, s.threw)

\* store.hydrateFromStorage() called on the store of tab t
hydrateFromStorage(t) ==
    /\ hydrate(t)
    /\ nops' = nops + 1
    /\ UNCHANGED <<open, localStorage, pending, lastWriter, rendered>>
    /\ SameApp

onStorage_anyKey(t) ==
    /\ listeners[t] > 0
    /\ pending[t] # <<>>
    /\ pending' = [pending EXCEPT ![t] = Tail(pending[t])]
    /\ hydrate(t)
    /\ UNCHANGED <<open, localStorage, lastWriter, nops, rendered>>
    /\ SameApp

\* a handler that hydrates through the persisting actions of the store, one field
\* after the other: each call writes the whole state, and every write that
\* changes the item sends the other tabs a storage event
onStorage_viaSetters(t) ==
    LET s == hydratedState(t, localStorage)
        first == persistState(s.selectedTransformerIds, tableSearch[t], healthFilter[t])
        second == persistState(s.selectedTransformerIds, s.tableSearch, healthFilter[t])
        third == persistState(s.selectedTransformerIds, s.tableSearch, s.healthFilter)
        sent == (IF first # localStorage[STORAGE_KEY] THEN <<STORAGE_KEY>> ELSE <<>>)
                \o (IF second # first THEN <<STORAGE_KEY>> ELSE <<>>)
                \o (IF third # second THEN <<STORAGE_KEY>> ELSE <<>>)
    IN
    /\ listeners[t] > 0
    /\ pending[t] # <<>>
    /\ IF Head(pending[t]) = STORAGE_KEY
       THEN /\ hydrate(t)
            /\ localStorage' = [localStorage EXCEPT ![STORAGE_KEY] = third]
            /\ pending' = [u \in Tabs |->
                              IF u = t THEN Tail(pending[t])
                              ELSE IF u \in open THEN pending[u] \o sent
                              ELSE pending[u]]
            /\ lastWriter' = t
       ELSE /\ last' = Record("onStorage", t, NullId, FALSE)
            /\ pending' = [pending EXCEPT ![t] = Tail(pending[t])]
            /\ UNCHANGED <<transformers, selectedTransformerIds, tableSearch,
                           healthFilter, hoveredTransformerId, localStorage, lastWriter>>
    /\ UNCHANGED <<open, nops, rendered>>
    /\ SameApp

\* App.vue onStorage: tab t handles its oldest pending storage event
onStorage(t) ==
    /\ listeners[t] > 0
    /\ pending[t] # <<>>
    /\ pending' = [pending EXCEPT ![t] = Tail(pending[t])]
    /\ IF Head(pending[t]) = STORAGE_KEY
       THEN hydrate(t)
       ELSE /\ last' = Record("onStorage", t, NullId, FALSE)
            /\ UNCHANGED <<transformers, selectedTransformerIds, tableSearch,
                           healthFilter, hoveredTransformerId>>
    /\ UNCHANGED <<open, localStorage, lastWriter, nops, rendered>>
    /\ SameApp

\* something other than this build's store replaces the item under STORAGE_KEY
\* (storage cleared, an older version of the page, the developer tools); every
\* tab is sent the storage event
foreignWrite(item) ==
    /\ canSetItem(0, STORAGE_KEY, item)
    /\ setItem(0, STORAGE_KEY, item)
    /\ lastWriter' = 0
    /\ last' = Record("foreignWrite", 0, NullId, FALSE)
    /\ nops' = nops + 1
    /\ UNCHANGED <<open, transformers, selectedTransformerIds, tableSearch, healthFilter,
                   hoveredTransformerId, rendered>>
    /\ SameApp

\* the table view reads the computed list (TransformerTable: transformers)
renderTable(t) ==
    /\ rendered' = filteredTransformers(t)
    /\ last' = Record("filteredTransformers", t, NullId, FALSE)
    /\ nops' = nops + 1
    /\ UNCHANGED <<open, transformers, selectedTransformerIds, tableSearch, healthFilter,
                   hoveredTransformerId, localStorage, pending, lastWriter>>
    /\ SameApp

\* Vue renders the chart of tab t anew: the computed values are evaluated on the
\* refs of the store as they are now
renderChart(t) ==
    /\ chart' = [chart EXCEPT ![t] =
                    TransformerChart(transformers[t], tableSearch[t], healthFilter[t],
                                     selectedTransformerIds[t])]
    /\ last' = Record("TransformerChart", t, NullId, FALSE)
    /\ nops' = nops + 1
    /\ UNCHANGED <<open, transformers, selectedTransformerIds, tableSearch, healthFilter,
                   hoveredTransformerId, localStorage, pending, lastWriter, rendered,
                   mounted, listeners, isDark>>

\* One dashboard tab, its user, and the other writers of localStorage
Next ==
    \/ /\ nops < MaxOps
       /\ \/ \E t \in open : Reload(t)
          \/ \E t \in open, search \in SearchInputs : setTableSearch(t, search)
          \/ \E t \in open, filter \in HealthInputs : setHealthFilter(t, filter)
          \/ \E t \in open, assetId \in HoverInputs : setHoveredTransformer(t, assetId)
          \/ \E t \in open, assetId \in ToggleInputs :
                 toggleTransformerSelection(t, assetId)
          \/ \E t \in open, ids \in SelectionInputs : setSelectedTransformerIds(t, ids)
          \/ \E t \in open : hydrateFromStorage(t)
          \/ \E item \in ForeignItems : foreignWrite(item)
    \/ \E t \in open : onStorage(t)

Spec == Init /\ [][Next]_vars

-----------------------------------------------------------------------------
(* Several tabs of the dashboard on one localStorage *)

TabSearchInputs == { <<>>, <<"c","r","i","t">> }
TabHealthInputs == { Null, Critical }
TabToggleInputs == { 1, 2 }
TabSelectionInputs == { <<3, 1>> }
TabItems == { NoItem,
              JsonObject(<< [k |-> "tableSearch",
                             v |-> stringifyString(<<"N","O">>)] >>) }

InitTabs == InitStores(Tabs, TabItems)

NextTabs ==
    \/ /\ nops < MaxTabOps
       /\ \/ \E t \in open, search \in TabSearchInputs : setTableSearch(t, search)
          \/ \E t \in open, filter \in TabHealthInputs : setHealthFilter(t, filter)
          \/ \E t \in open, assetId \in TabToggleInputs :
                 toggleTransformerSelection(t, assetId)
          \/ \E t \in open, ids \in TabSelectionInputs :
                 setSelectedTransformerIds(t, ids)
    \/ \E t \in open : onStorage(t)

SpecTabs == InitTabs /\ [][NextTabs]_vars

-----------------------------------------------------------------------------
(* The filter alone, over every small dataset, search text and health filter *)

FilterPool ==
    SetOf(loadTransformers) \cup
    { [assetId |-> 4, name |-> <<"n","o","V","a">>, region |-> <<"W","e","s","t">>,
       health |-> Excellent, lastTenVoltageReadings |-> <<>>] }

\* the lists of at most MaxListLen transformers with distinct asset ids
FilterLists ==
    { list \in UNION { [1..n -> FilterPool] : n \in 0..MaxListLen } :
        \A i, j \in 1..Len(list) : i # j => list[i].assetId # list[j].assetId }

FilterSearchInputs ==
    { <<>>, <<"c","r","i","t">>, <<"C","R","I","T">>, <<"N","O">>, <<"o","o">>, <<"z">> }

InitFilter ==
    /\ open = {1}
    /\ transformers \in { [t \in Tabs |-> list] : list \in FilterLists }
    /\ selectedTransformerIds =
          [t \in Tabs |-> [i \in 1..Len(transformers[t]) |-> transformers[t][i].assetId]]
    /\ tableSearch \in { [t \in Tabs |-> search] : search \in FilterSearchInputs }
    /\ healthFilter \in { [t \in Tabs |-> h] : h \in TransformerHealth \cup {Null} }
    /\ hoveredTransformerId = [t \in Tabs |-> NullId]
    /\ localStorage = [k \in StorageKeys |-> NoItem]
    /\ pending = [t \in Tabs |-> <<>>]
    /\ lastWriter = 0
    /\ last = [op |-> "useTransformerStore", tab |-> 0, id |-> NullId, threw |-> FALSE,
               arg |-> <<>>, prevOp |-> "none", prevTab |-> 0, prevId |-> NullId,
               preIds |-> <<>>, replacedBy |-> 0, prevPreIds |-> <<>>,
               preItem |-> NoItem]
    /\ nops = 0
    /\ rendered = <<>>
    /\ mounted = {1}
    /\ listeners = [t \in Tabs |-> IF t = 1 THEN 1 ELSE 0]
    /\ isDark = [t \in Tabs |-> FALSE]
    /\ chart = [t \in Tabs |->
                   TransformerChart(transformers[t], tableSearch[t], healthFilter[t],
                                    selectedTransformerIds[t])]

NextFilter ==
    /\ nops < MaxFilterOps
    /\ \/ \E search \in FilterSearchInputs : setTableSearch(1, search)
       \/ renderTable(1)

SpecFilter == InitFilter /\ [][NextFilter]_vars

-----------------------------------------------------------------------------
(* components/TransformerTable.vue: the gestures on the table of one tab *)

LoadedIds(t) == {transformers[t][i].assetId : i \in 1..Len(transformers[t])}

\* transformers.value.map(t => t.assetId), the ids of the rows shown
visibleIds(t) ==
    [i \in 1..Len(filteredTransformers(t)) |-> filteredTransformers(t)[i].assetId]

\* the computed allVisibleSelected
allVisibleSelected(t) ==
    /\ Len(filteredTransformers(t)) # 0
    /\ \A i \in 1..Len(filteredTransformers(t)) :
          arrayIncludes(selectedTransformerIds[t], filteredTransformers(t)[i].assetId)

selectAllIds_visibleOnly(t) ==
    IF allVisibleSelected(t) THEN <<>> ELSE visibleIds(t)

\* select-all that appends the visible ids to the whole selection
selectAllIds_appendsToAll(t) ==
    LET NotVisible(id) == ~arrayIncludes(visibleIds(t), id)
        otherSelectedIds == SelectSeq(selectedTransformerIds[t], NotVisible)
    IN IF allVisibleSelected(t)
       THEN otherSelectedIds
       ELSE selectedTransformerIds[t] \o visibleIds(t)

\* the array toggleSelectAll hands to store.setSelectedTransformerIds
selectAllIds(t) ==
    LET NotVisible(id) == ~arrayIncludes(visibleIds(t), id)
        otherSelectedIds == SelectSeq(selectedTransformerIds[t], NotVisible)
    IN IF allVisibleSelected(t)
       THEN otherSelectedIds
       ELSE otherSelectedIds \o visibleIds(t)

\* a click on the header checkbox
toggleSelectAll(t) == setSelectedTransformerIds(t, selectAllIds(t))

\* a click on the row of the transformer assetId, one of the rows shown
onRowClick(t, assetId) ==
    /\ arrayIncludes(visibleIds(t), assetId)
    /\ toggleTransformerSelection(t, assetId)

\* TransformerTable.vue isRowSelected
isRowSelected(t, assetId) == arrayIncludes(selectedTransformerIds[t], assetId)

\* the pointer enters the row of the transformer assetId, one of the rows shown;
\* the handler returns at once when the row is not selected
onRowMouseEnter(t, assetId) ==
    /\ arrayIncludes(visibleIds(t), assetId)
    /\ IF isRowSelected(t, assetId)
       THEN setHoveredTransformer(t, assetId)
       ELSE /\ last' = Record("onRowMouseEnter", t, assetId, FALSE)
            /\ nops' = nops + 1
            /\ UNCHANGED <<open, transformers, selectedTransformerIds, tableSearch,
                           healthFilter, hoveredTransformerId, localStorage, pending,
                           lastWriter, rendered>>
            /\ SameApp

\* the pointer leaves the row it was on
onRowMouseLeave(t) == setHoveredTransformer(t, NullId)

\* TransformerChart.vue onToggleTransformer: a click on the checkbox, below the
\* chart, of the transformer assetId, one of the filtered list
onToggleTransformer(t, assetId) ==
    /\ arrayIncludes(visibleIds(t), assetId)
    /\ toggleTransformerSelection(t, assetId)

ViewSearchInputs == { <<>>, <<"c","r","i","t">>, <<"N","O">>, <<" ">> }
ViewHealthInputs == { Null, Good, Critical }
ViewItems ==
    { NoItem,
      JsonObject(<< [k |-> "selectedTransformerIds", v |-> stringifyArray(<<2>>)] >>) }

InitView == InitStores({1}, ViewItems)

NextView ==
    /\ nops < MaxViewOps
    /\ \/ \E search \in ViewSearchInputs : setTableSearch(1, search)
       \/ \E filter \in ViewHealthInputs : setHealthFilter(1, filter)
       \/ \E assetId \in LoadedIds(1) : onRowClick(1, assetId)
       \/ \E assetId \in LoadedIds(1) : onToggleTransformer(1, assetId)
       \/ toggleSelectAll(1)
       \/ \E assetId \in LoadedIds(1) : onRowMouseEnter(1, assetId)
       \/ onRowMouseLeave(1)

SpecView == InitView /\ [][NextView]_vars

-----------------------------------------------------------------------------
(* App.vue: the 'storage' listener over the life of the component, the theme *)
(* switch, and localStorage.clear() by some other page of the origin          *)

\* event.key of the storage event that localStorage.clear() fires
NullKey == "(null)"

\* the item useTheme writes: the text dark or light (kind names the text)
ThemeText(dark) == [kind |-> IF dark THEN "dark" ELSE "light", members |-> <<>>]

\* toggleTheme() and the watcher on isDark that persists the theme
toggleTheme(t) ==
    LET dark == ~isDark[t] IN
    /\ canSetItem(t, THEME_STORAGE_KEY, ThemeText(dark))
    /\ isDark' = [isDark EXCEPT ![t] = dark]
    /\ setItem(t, THEME_STORAGE_KEY, ThemeText(dark))
    /\ last' = Record("toggleTheme", t, NullId, FALSE)
    /\ nops' = nops + 1
    /\ UNCHANGED <<open, transformers, selectedTransformerIds, tableSearch, healthFilter,
                   hoveredTransformerId, lastWriter, rendered, mounted, listeners>>
    /\ UNCHANGED chart

\* localStorage.clear() outside the dashboard tabs: every item is removed and,
\* something having been stored, every tab is sent a storage event with key null
clearStorage ==
    /\ \E k \in StorageKeys : localStorage[k] # NoItem
    /\ \A u \in open : Len(pending[u]) < MaxPending
    /\ localStorage' = [k \in StorageKeys |-> NoItem]
    /\ pending' = [u \in Tabs |->
                      IF u \in open THEN Append(pending[u], NullKey) ELSE pending[u]]
    /\ lastWriter' = 0
    /\ last' = Record("clear", 0, NullId, FALSE)
    /\ nops' = nops + 1
    /\ UNCHANGED <<open, transformers, selectedTransformerIds, tableSearch, healthFilter,
                   hoveredTransformerId, rendered>>
    /\ SameApp

\* onMounted: window.addEventListener('storage', onStorage)
onMounted(t) ==
    /\ t \notin mounted
    /\ mounted' = mounted \cup {t}
    /\ listeners' = [listeners EXCEPT ![t] = listeners[t] + 1]
    /\ last' = Record("onMounted", t, NullId, FALSE)
    /\ UNCHANGED <<open, transformers, selectedTransformerIds, tableSearch, healthFilter,
                   hoveredTransformerId, localStorage, pending, lastWriter, nops, rendered,
                   isDark>>
    /\ UNCHANGED chart

onBeforeUnmount_keepsListener(t) ==
    /\ t \in mounted
    /\ mounted' = mounted \ {t}
    /\ last' = Record("onBeforeUnmount", t, NullId, FALSE)
    /\ UNCHANGED <<open, transformers, selectedTransformerIds, tableSearch, healthFilter,
                   hoveredTransformerId, localStorage, pending, lastWriter, nops, rendered,
                   isDark, listeners>>
    /\ UNCHANGED chart

\* onBeforeUnmount: window.removeEventListener('storage', onStorage)
onBeforeUnmount(t) ==
    /\ t \in mounted
    /\ mounted' = mounted \ {t}
    /\ listeners' = [listeners EXCEPT ![t] = listeners[t] - 1]
    /\ last' = Record("onBeforeUnmount", t, NullId, FALSE)
    /\ UNCHANGED <<open, transformers, selectedTransformerIds, tableSearch, healthFilter,
                   hoveredTransformerId, localStorage, pending, lastWriter, nops, rendered,
                   isDark>>
    /\ UNCHANGED chart

\* the oldest pending storage event of tab t is dispatched on a window that has
\* no 'storage' listener
unheardStorage(t) ==
    /\ listeners[t] = 0
    /\ pending[t] # <<>>
    /\ pending' = [pending EXCEPT ![t] = Tail(pending[t])]
    /\ last' = Record("storage", t, NullId, FALSE)
    /\ UNCHANGED <<open, transformers, selectedTransformerIds, tableSearch, healthFilter,
                   hoveredTransformerId, localStorage, lastWriter, nops, rendered>>
    /\ SameApp

BridgeSearchInputs == { <<>>, <<"c","r","i","t">> }

\* two tabs, the one that writes and the one that is notified, nothing stored
InitBridge == InitStores({1, 2}, {NoItem})

NextBridge ==
    \/ /\ nops < MaxBridgeOps
       /\ \/ \E t \in mounted, search \in BridgeSearchInputs : setTableSearch(t, search)
          \/ \E t \in mounted : toggleTheme(t)
          \/ clearStorage
    \/ \E t \in open : onMounted(t)
    \/ \E t \in open : onBeforeUnmount(t)
    \/ \E t \in open : onStorage(t)
    \/ \E t \in open : unheardStorage(t)

SpecBridge == InitBridge /\ [][NextBridge]_vars

-----------------------------------------------------------------------------
(* The chart of one tab, over small datasets of every shape of readings *)

\* lastTenVoltageReadings as the data file may hold them: none, a single 0, equal
\* values, values near the 5000 V steps of the axis, out of chronological order,
\* a timestamp the other lists lack, a negative value, two readings with one
\* timestamp
ReadingLists ==
    { <<>>,
      << [timestamp |-> <<"0","2">>, voltage |-> <<"1","0","0">>],
         [timestamp |-> <<"0","2">>, voltage |-> <<"0">>] >>,
      << [timestamp |-> <<"0","1">>, voltage |-> <<"0">>] >>,
      << [timestamp |-> <<"0","1">>, voltage |-> <<"1","0","0">>] >>,
      << [timestamp |-> <<"0","2">>, voltage |-> <<"1","0","6","0","0">>],
         [timestamp |-> <<"0","1">>, voltage |-> <<"9","6","0","0">>] >>,
      << [timestamp |-> <<"0","1">>, voltage |-> <<"8","9","0","0">>],
         [timestamp |-> <<"0","3">>, voltage |-> <<"9","9","0","0">>] >>,
      << [timestamp |-> <<"0","1">>, voltage |-> <<"-","5","0">>] >> }

\* the first transformers of sampleData, each with readings from ReadingLists
ChartDatasets ==
    { [i \in 1..n |-> [sampleData[i] EXCEPT !.lastTenVoltageReadings = lists[i]]] :
          n \in 0..MaxChartAssets, lists \in [1..MaxChartAssets -> ReadingLists] }

ChartSearchInputs == { <<"c","r","i","t">> }
ChartHealthInputs == { Good }
ChartToggleInputs == { 1, 2 }
ChartSelectionInputs == { <<2>> }
ChartHoverInputs == { 2 }

\* the store as constructed by getDefaultState() over the dataset, nothing stored
InitChart ==
    /\ open = {1}
    /\ transformers \in { [t \in Tabs |-> normalize(raw)] : raw \in ChartDatasets }
    /\ selectedTransformerIds =
          [t \in Tabs |-> [i \in 1..Len(transformers[t]) |-> transformers[t][i].assetId]]
    /\ tableSearch = [t \in Tabs |-> <<>>]
    /\ healthFilter = [t \in Tabs |-> Null]
    /\ hoveredTransformerId = [t \in Tabs |-> NullId]
    /\ localStorage = [k \in StorageKeys |-> NoItem]
    /\ pending = [t \in Tabs |-> <<>>]
    /\ lastWriter = 0
    /\ last = [op |-> "useTransformerStore", tab |-> 0, id |-> NullId, threw |-> FALSE,
               arg |-> <<>>, prevOp |-> "none", prevTab |-> 0, prevId |-> NullId,
               preIds |-> <<>>, replacedBy |-> 0, prevPreIds |-> <<>>,
               preItem |-> NoItem]
    /\ nops = 0
    /\ rendered = <<>>
    /\ mounted = {1}
    /\ listeners = [t \in Tabs |-> IF t = 1 THEN 1 ELSE 0]
    /\ isDark = [t \in Tabs |-> FALSE]
    /\ chart = [t \in Tabs |->
                   TransformerChart(transformers[t], tableSearch[t], healthFilter[t],
                                    selectedTransformerIds[t])]

NextChart ==
    /\ nops < MaxChartOps
    /\ \/ \E search \in ChartSearchInputs : setTableSearch(1, search)
       \/ \E filter \in ChartHealthInputs : setHealthFilter(1, filter)
       \/ \E assetId \in ChartToggleInputs : toggleTransformerSelection(1, assetId)
       \/ \E ids \in ChartSelectionInputs : setSelectedTransformerIds(1, ids)
       \/ \E assetId \in ChartHoverInputs : setHoveredTransformer(1, assetId)
       \/ hydrateFromStorage(1)
       \/ renderChart(1)

SpecChart == InitChart /\ [][NextChart]_vars

-----------------------------------------------------------------------------
(* The persisted mutations when localStorage.setItem throws (quota exceeded,  *)
(* storage unavailable): the ref is assigned before persistState is called,   *)
(* and neither persistState nor the action catches the exception              *)

\* the action op of tab t, called with arg, leaves the refs ids, search and
\* filter and then throws out of persistState; nothing is stored
throwsInPersistState(op, t, assetId, arg, ids, search, filter) ==
    /\ selectedTransformerIds' = [selectedTransformerIds EXCEPT ![t] = ids]
    /\ tableSearch' = [tableSearch EXCEPT ![t] = search]
    /\ healthFilter' = [healthFilter EXCEPT ![t] = filter]
    /\ last' = RecordOf(op, t, assetId, TRUE, arg)
    /\ nops' = nops + 1
    /\ UNCHANGED <<open, transformers, hoveredTransformerId, localStorage, pending,
                   lastWriter, rendered>>
    /\ SameApp

setTableSearchThrows(t, search) ==
    throwsInPersistState("setTableSearch", t, NullId, search,
                         selectedTransformerIds[t], search, healthFilter[t])

setHealthFilterThrows(t, filter) ==
    throwsInPersistState("setHealthFilter", t, NullId, filter,
                         selectedTransformerIds[t], tableSearch[t], filter)

toggleTransformerSelectionThrows(t, assetId) ==
    throwsInPersistState("toggleTransformerSelection", t, assetId, <<>>,
                         toggledIds(selectedTransformerIds[t], assetId),
                         tableSearch[t], healthFilter[t])

setSelectedTransformerIdsThrows(t, ids) ==
    throwsInPersistState("setSelectedTransformerIds", t, NullId, ids,
                         ids, tableSearch[t], healthFilter[t])

QuotaSearchInputs == { <<>>, <<"c","r","i","t">> }
QuotaHealthInputs == { Null, Critical }
QuotaToggleInputs == { 1, 2 }
QuotaSelectionInputs == { <<2>> }

InitQuota == InitStores({1}, {NoItem})

\* every call of localStorage.setItem either stores the item or throws
NextQuota ==
    /\ nops < MaxQuotaOps
    /\ \/ \E search \in QuotaSearchInputs : setTableSearch(1, search)
       \/ \E filter \in QuotaHealthInputs : setHealthFilter(1, filter)
       \/ \E assetId \in QuotaToggleInputs : toggleTransformerSelection(1, assetId)
       \/ \E ids \in QuotaSelectionInputs : setSelectedTransformerIds(1, ids)
       \/ \E search \in QuotaSearchInputs : setTableSearchThrows(1, search)
       \/ \E filter \in QuotaHealthInputs : setHealthFilterThrows(1, filter)
       \/ \E assetId \in QuotaToggleInputs : toggleTransformerSelectionThrows(1, assetId)
       \/ \E ids \in QuotaSelectionInputs : setSelectedTransformerIdsThrows(1, ids)

SpecQuota == InitQuota /\ [][NextQuota]_vars

-----------------------------------------------------------------------------
(* Properties *)

item == localStorage[STORAGE_KEY]

HasAll(it) ==
    /\ it.kind = "json"
    /\ hasMember(it, "selectedTransformerIds")
    /\ hasMember(it, "tableSearch")
    /\ hasMember(it, "healthFilter")

StoredIds(it) == parseArray(memberTokens(it, "selectedTransformerIds"))
StoredSearch(it) == parseString(memberTokens(it, "tableSearch"))
StoredHealth(it) == parseNullable(memberTokens(it, "healthFilter"))

\* lowercased s is a substring of lowercased field
ContainsIgnoringCase(field, s) ==
    \E i \in 0..Len(field) : \E j \in i..Len(field) :
        toLowerCase(SubSeq(field, i + 1, j)) = toLowerCase(s)

Wanted(t, s, h) ==
    /\ \/ s = <<>>
       \/ ContainsIgnoringCase(t.name, s)
       \/ ContainsIgnoringCase(t.region, s)
       \/ ContainsIgnoringCase(t.health, s)
    /\ (h = Null \/ t.health = h)

\* result is the sub-sequence of list, in list's order, of the elements at idx
IsSubSequenceAt(result, list, idx) ==
    /\ Len(result) = Cardinality(idx)
    /\ \A k \in 1..Len(result) :
          result[k] = list[CHOOSE i \in idx : Cardinality({j \in idx : j <= i}) = k]

\* C1: whatever the transformer list, the search text and the health filter,
\* filteredTransformers is exactly the sub-sequence, in the list's order, of the
\* transformers whose name, region or health contains the lowercased search text
\* (or the text is empty) and whose health is the filter (or the filter is none):
\* none of them is left out and no other is included.
C1_FilterIsExactSubsequence ==
    last.op = "filteredTransformers" =>
        LET t == last.tab
            idx == {i \in 1..Len(transformers[t]) :
                       Wanted(transformers[t][i], tableSearch[t], healthFilter[t])}
        IN IsSubSequenceAt(rendered, transformers[t], idx)

\* C1 witness: two transformers, a non-empty search and a health filter, and the
\* list read keeps the second transformer only
C1_Witness ==
    /\ last.op = "filteredTransformers"
    /\ Len(transformers[1]) = 2
    /\ tableSearch[1] # <<>>
    /\ healthFilter[1] # Null
    /\ rendered = <<transformers[1][2]>>

\* C2: right after setTableSearch, setHealthFilter, toggleTransformerSelection or
\* setSelectedTransformerIds in a tab, the item under STORAGE_KEY holds exactly the
\* three fields and each equals that tab's value in memory.
C2_WholeStateWritten ==
    last.op \in PersistedOps =>
        /\ HasAll(item)
        /\ Len(item.members) = 3
        /\ StoredIds(item) = selectedTransformerIds[last.tab]
        /\ StoredSearch(item) = tableSearch[last.tab]
        /\ StoredHealth(item) = healthFilter[last.tab]

\* C2 witness: setHealthFilter ran when nothing was stored, with a search text and
\* a selection that it did not change
C2_Witness ==
    /\ last.op = "setHealthFilter"
    /\ last.preItem.kind # "json"
    /\ healthFilter[last.tab] = Critical
    /\ Len(selectedTransformerIds[last.tab]) = 3

\* C3: a store constructed right after a persisted mutation reads back the same
\* selection (as a set), the same search text and the same health filter that the
\* mutating tab holds.
C3_RoundTrip ==
    [][ (last.op \in PersistedOps /\ last'.op = "useTransformerStore") =>
            /\ SetOf(selectedTransformerIds'[last'.tab]) =
                   SetOf(selectedTransformerIds[last.tab])
            /\ tableSearch'[last'.tab] = tableSearch[last.tab]
            /\ healthFilter'[last'.tab] = healthFilter[last.tab] ]_vars

\* C3 witness: the store was constructed right after the selection was emptied,
\* with the empty search text and no health filter
C3_Witness ==
    /\ last.op = "useTransformerStore"
    /\ last.prevOp = "setSelectedTransformerIds"
    /\ selectedTransformerIds[last.tab] = <<>>
    /\ tableSearch[last.tab] = <<>>
    /\ healthFilter[last.tab] = Null

\* the tabs whose store the last useTransformerStore constructed
Constructed == IF last.tab = 0 THEN open ELSE {last.tab}

\* C4: constructing the store raises nothing; with no item or an item that is not
\* JSON the state is the default (all loaded ids selected, empty search, no health
\* filter); with a JSON object every field present takes the stored value and every
\* missing one its default; hoveredTransformerId is none in every case.
C4_ConstructionDefaults ==
    last.op = "useTransformerStore" =>
        /\ ~last.threw
        /\ \A t \in Constructed :
              LET d == [i \in 1..Len(transformers[t]) |-> transformers[t][i].assetId]
                  json == item.kind = "json"
              IN /\ selectedTransformerIds[t] =
                        IF json /\ hasMember(item, "selectedTransformerIds")
                        THEN StoredIds(item) ELSE d
                 /\ tableSearch[t] =
                        IF json /\ hasMember(item, "tableSearch")
                        THEN StoredSearch(item) ELSE <<>>
                 /\ healthFilter[t] =
                        IF json /\ hasMember(item, "healthFilter")
                        THEN StoredHealth(item) ELSE Null
                 /\ hoveredTransformerId[t] = NullId

\* C4 witness: a reload, while a row was hovered, over an object that holds the
\* search text only
C4_Witness ==
    /\ last.op = "useTransformerStore"
    /\ last.prevOp = "setHoveredTransformer"
    /\ last.prevId # NullId
    /\ item.kind = "json"
    /\ hasMember(item, "tableSearch")
    /\ ~hasMember(item, "selectedTransformerIds")
    /\ ~hasMember(item, "healthFilter")

Quiescent == \A t \in open : pending[t] = <<>>

\* C6: whatever the interleaving of persisted mutations and storage events, once
\* a tab has written and no storage event is pending, the stored item is the whole
\* three-field state of the tab that wrote last and every tab holds its values.
C6_TabsConverge ==
    (lastWriter \in open /\ Quiescent) =>
        /\ item = persistState(selectedTransformerIds[lastWriter],
                               tableSearch[lastWriter], healthFilter[lastWriter])
        /\ \A t \in open :
              /\ selectedTransformerIds[t] = StoredIds(item)
              /\ tableSearch[t] = StoredSearch(item)
              /\ healthFilter[t] = StoredHealth(item)

\* C6 witness: two tabs wrote before either handled the other's storage event, and
\* both events have now been handled
C6_Witness ==
    /\ lastWriter \in open
    /\ Quiescent
    /\ last.op = "hydrateFromStorage"
    /\ last.prevOp = "hydrateFromStorage"
    /\ last.tab # last.prevTab

\* the selection stored in an item, as a set; no set when none is stored
StoredIdSet(it) ==
    IF it.kind = "json" /\ hasMember(it, "selectedTransformerIds")
    THEN {SetOf(StoredIds(it))} ELSE {}

SecondToggle ==
    /\ last.op = "toggleTransformerSelection"
    /\ last'.op = "toggleTransformerSelection"
    /\ last'.tab = last.tab
    /\ last'.id = last.id

\* C7 as claimed: two toggles of the same id in a row restore the tab's selection
\* as a set, and the stored selection is, as a set, what it was before them.
C7_Original ==
    [][ SecondToggle =>
            /\ SetOf(selectedTransformerIds'[last.tab]) = SetOf(last.preIds)
            /\ StoredIdSet(item') = StoredIdSet(last.preItem) ]_vars

\* C7 as amended: two toggles of the same id in a row restore the tab's selection
\* as a set, and the stored selection is then that set: it is what was stored
\* before only if the item held the tab's selection before the two calls.
C7_ToggleTwice ==
    [][ SecondToggle =>
            /\ SetOf(selectedTransformerIds'[last.tab]) = SetOf(last.preIds)
            /\ StoredIdSet(item') = {SetOf(last.preIds)}
            /\ (StoredIdSet(last.preItem) = {SetOf(last.preIds)} =>
                    StoredIdSet(item') = StoredIdSet(last.preItem)) ]_vars

\* C7 witness: the same id was toggled twice in a row, off and on again, in a tab
\* whose selection the store did not hold
C7_Witness ==
    /\ last.op = "toggleTransformerSelection"
    /\ last.prevOp = "toggleTransformerSelection"
    /\ last.prevTab = last.tab
    /\ last.prevId = last.id
    /\ arrayIncludes(selectedTransformerIds[last.tab], last.id)
    /\ Len(selectedTransformerIds[last.tab]) = 3

\* C8: toggleTransformerSelection of a loaded id flips that id's membership and no
\* other, and leaves tableSearch, healthFilter and hoveredTransformerId alone; so
\* toggling id 1 in a store just constructed with nothing stored leaves all the
\* loaded ids but 1 selected.
C8_ToggleFlipsOne ==
    [][ (last'.op = "toggleTransformerSelection" /\ last'.id \in LoadedIds(last'.tab)) =>
            LET t == last'.tab
                old == SetOf(selectedTransformerIds[t])
                new == SetOf(selectedTransformerIds'[t])
            IN /\ new = IF last'.id \in old THEN old \ {last'.id}
                                             ELSE old \cup {last'.id}
               /\ tableSearch'[t] = tableSearch[t]
               /\ healthFilter'[t] = healthFilter[t]
               /\ hoveredTransformerId'[t] = hoveredTransformerId[t]
               /\ (last.op = "useTransformerStore" /\ item.kind = "none"
                       /\ last'.id = 1) =>
                      new = LoadedIds(t) \ {1} ]_vars

\* C8 witness: id 1 toggled first thing after a load with nothing stored
C8_Witness ==
    /\ last.op = "toggleTransformerSelection"
    /\ last.id = 1
    /\ last.prevOp = "useTransformerStore"
    /\ last.preItem.kind = "none"
    /\ selectedTransformerIds[last.tab] = <<2, 3>>

\* C9 as claimed: toggleTransformerSelection of an id that no loaded transformer
\* has raises nothing and leaves selectedTransformerIds as it was.
C9_UnknownIdIgnored ==
    [][ (last'.op = "toggleTransformerSelection"
             /\ last'.id \notin LoadedIds(last'.tab)) =>
            /\ ~last'.threw
            /\ selectedTransformerIds'[last'.tab] = selectedTransformerIds[last'.tab]
      ]_vars

RenderedIds == [i \in 1..Len(rendered) |-> rendered[i].assetId]

\* asset 1 in health Good and asset 2 in health Critical, and nothing else
TwoAssetDataset(t) ==
    /\ Len(transformers[t]) = 2
    /\ \E i \in 1..2 : transformers[t][i].assetId = 1 /\ transformers[t][i].health = Good
    /\ \E i \in 1..2 :
          transformers[t][i].assetId = 2 /\ transformers[t][i].health = Critical

SearchedCrit ==
    /\ last.op = "filteredTransformers"
    /\ last.prevOp = "setTableSearch"
    /\ tableSearch[last.tab] = <<"c","r","i","t">>
    /\ TwoAssetDataset(last.tab)

\* C10 as claimed: with asset 1 (Good) and asset 2 (Critical), the list read after
\* setTableSearch("crit") is exactly transformer 2 whatever the health filter.
C10_Original == SearchedCrit => RenderedIds = <<2>>

\* C10 as amended: with asset 1 (Good) and asset 2 (Critical), the list read after
\* setTableSearch("crit") is exactly transformer 2 when the health filter is none
\* or Critical, and is empty for each of the other four health values; it never
\* holds transformer 1.
C10_CritSearch ==
    SearchedCrit =>
        RenderedIds = IF healthFilter[last.tab] \in {Null, Critical}
                      THEN <<2>> ELSE <<>>

\* C10 witness: the search for "crit" under the health filter Good shows nothing
C10_Witness ==
    /\ SearchedCrit
    /\ healthFilter[last.tab] = Good
    /\ rendered = <<>>

\* C11: setHoveredTransformer changes hoveredTransformerId and nothing else: the
\* item under STORAGE_KEY is unchanged, no tab is notified, the three persisted
\* fields and the transformers are unchanged; and an item written by a store of
\* this module never has a member for the hovered id (it has the three persisted
\* members only).
C11_HoverIsTransient ==
    [][ /\ last'.op = "setHoveredTransformer" =>
               /\ hoveredTransformerId'[last'.tab] = last'.id
               /\ \A u \in Tabs \ {last'.tab} :
                      hoveredTransformerId'[u] = hoveredTransformerId[u]
               /\ localStorage' = localStorage
               /\ pending' = pending
               /\ lastWriter' = lastWriter
               /\ selectedTransformerIds' = selectedTransformerIds
               /\ tableSearch' = tableSearch
               /\ healthFilter' = healthFilter
               /\ transformers' = transformers
        /\ lastWriter' \in Tabs =>
               /\ ~hasMember(localStorage'[STORAGE_KEY], "hoveredTransformerId")
               /\ Len(localStorage'[STORAGE_KEY].members) = 3 ]_vars

\* C11 witness: a transformer is hovered while the item under STORAGE_KEY is one
\* that this tab's store wrote before
C11_Witness ==
    /\ last.op = "setHoveredTransformer"
    /\ last.id # NullId
    /\ hoveredTransformerId[last.tab] = last.id
    /\ lastWriter = last.tab
    /\ last.prevOp \in PersistedOps

\* the step is a hydrate in the tab whose last operation was
\* setSelectedTransformerIds, after another tab has overwritten the item with a
\* state whose selection is the one the tab had before that call
StaleHydrate ==
    /\ last'.op = "hydrateFromStorage"
    /\ last.prevOp = "setSelectedTransformerIds"
    /\ last.prevTab = last'.tab
    /\ last.op \in PersistedOps
    /\ last.tab # last'.tab
    /\ item.kind = "json"
    /\ hasMember(item, "selectedTransformerIds")
    /\ StoredIds(item) = last.prevPreIds

\* C12: last write wins on hydrate.  When a tab has called
\* setSelectedTransformerIds and the stored item is then a stale one, written by
\* another tab from its older state, whose selection is the selection S0 the tab
\* had before the call, hydrateFromStorage in the tab sets selectedTransformerIds
\* back to S0.
C12_StaleBlobRestores ==
    [][ StaleHydrate => selectedTransformerIds'[last'.tab] = last.prevPreIds ]_vars

\* C12 witness: a tab replaced its selection, another tab then persisted a change
\* of its own, and the first tab, hydrated, has lost the replacement
C12_Witness ==
    /\ last.op = "hydrateFromStorage"
    /\ last.prevOp \in PersistedOps
    /\ last.prevTab # last.tab
    /\ last.replacedBy = last.tab
    /\ last.preIds \in TabSelectionInputs
    /\ selectedTransformerIds[last.tab] = StoredIds(item)
    /\ selectedTransformerIds[last.tab] = selectedTransformerIds[last.prevTab]
    /\ selectedTransformerIds[last.tab] # last.preIds

\* C13: in the table view, where setSelectedTransformerIds is called by the header
\* select-all toggle only: with S the selection before and V the ids of the
\* filtered list, the new selection is S minus V when every id of V is in S, and
\* S union V otherwise; so an id outside V is selected after exactly when it was
\* before, and with V non-empty either all of V or none of V is selected after.
C13_SelectAllToggle ==
    [][ last'.op = "setSelectedTransformerIds" =>
            LET t == last'.tab
                S == SetOf(selectedTransformerIds[t])
                V == SetOf(visibleIds(t))
                after == SetOf(selectedTransformerIds'[t])
            IN /\ after = IF V \subseteq S THEN S \ V ELSE S \cup V
               /\ \A id \in (LoadedIds(t) \cup S \cup after) \ V :
                      id \in after <=> id \in S
               /\ V # {} => (V \subseteq after \/ V \cap after = {})
      ]_vars

\* C13 witness: the filter shows some transformers but not all, some of those
\* shown were not selected and one not shown was; the toggle selected all those
\* shown and kept the one not shown
C13_Witness ==
    /\ last.op = "setSelectedTransformerIds"
    /\ SetOf(visibleIds(last.tab)) # {}
    /\ ~(SetOf(visibleIds(last.tab)) \subseteq SetOf(last.preIds))
    /\ SetOf(last.preIds) \ SetOf(visibleIds(last.tab)) # {}
    /\ SetOf(selectedTransformerIds[last.tab]) =
           SetOf(last.preIds) \cup SetOf(visibleIds(last.tab))

\* the refs of the store of tab t
StoreState(t) ==
    <<transformers[t], selectedTransformerIds[t], tableSearch[t], healthFilter[t],
      hoveredTransformerId[t]>>

\* the step hands the oldest pending storage event of tab t to its window
Delivered(t) ==
    /\ pending[t] # <<>>
    /\ pending'[t] = Tail(pending[t])
    /\ last'.tab = t
    /\ last'.op \in {"hydrateFromStorage", "onStorage", "storage"}

\* C14: the bridge calls hydrateFromStorage only for a storage event whose key
\* is STORAGE_KEY; handling an event with another key (the theme key, or the
\* null key of localStorage.clear()) calls no hydrate and leaves the store of
\* every tab as it was.
C14_OnlyTheDashboardKey ==
    [][ \A t \in Tabs :
            Delivered(t) =>
                /\ last'.op = "hydrateFromStorage" => Head(pending[t]) = STORAGE_KEY
                /\ Head(pending[t]) # STORAGE_KEY =>
                       /\ last'.op # "hydrateFromStorage"
                       /\ \A u \in Tabs : StoreState(u)' = StoreState(u)
      ]_vars

\* C14 witness: a tab whose listener is registered has handled the storage event
\* of another tab's theme switch while the stored search text was not its own
\* (a hydrate would have changed it)
C14_Witness ==
    /\ last.op = "onStorage"
    /\ last.prevOp = "toggleTheme"
    /\ last.prevTab # last.tab
    /\ last.tab \in mounted
    /\ item.kind = "json"
    /\ StoredSearch(item) # tableSearch[last.tab]

\* the calls of hydrateFromStorage that the oldest pending storage event of tab t
\* triggers: one per registered listener, when the key is STORAGE_KEY
hydrateCalls(t) ==
    IF Head(pending[t]) = STORAGE_KEY THEN listeners[t] ELSE 0

\* C15: the 'storage' listener is registered once when App mounts and removed
\* before it unmounts: a tab has one listener while mounted and none otherwise,
\* so a storage event triggers at most one hydrate, and an event dispatched
\* after the teardown reaches no handler and changes the store of no tab.
C15_ListenerLifecycle ==
    [][ /\ \A t \in Tabs : listeners'[t] = IF t \in mounted' THEN 1 ELSE 0
        /\ \A t \in Tabs :
               Delivered(t) =>
                   /\ hydrateCalls(t) <= 1
                   /\ t \notin mounted =>
                          /\ last'.op = "storage"
                          /\ \A u \in Tabs : StoreState(u)' = StoreState(u)
      ]_vars

\* C15 witness: a tab was torn down, another tab then persisted a search text,
\* the storage event was dispatched in the torn-down tab, and its store still
\* has the search text it had
C15_Witness ==
    /\ last.op = "storage"
    /\ last.tab \notin mounted
    /\ listeners[last.tab] = 0
    /\ last.prevOp = "setTableSearch"
    /\ last.prevTab # last.tab
    /\ item.kind = "json"
    /\ StoredSearch(item) # tableSearch[last.tab]

\* the voltages of all readings of all transformers loaded in tab t
LoadedVoltages(t) ==
    UNION { { transformers[t][i].lastTenVoltageReadings[k].voltage :
                  k \in 1..Len(transformers[t][i].lastTenVoltageReadings) } :
            i \in 1..Len(transformers[t]) }

\* v volts, and a tenth of v volts, in the tenths of a volt of a domain
InTenths(v) == 10 * v
TenPercentOf(v) == v

\* C16: the voltage domain over all readings of all loaded transformers is
\* [0, 100] when there is no reading; with min = max both ends are padded by 10%
\* of min, or by 10 when min is 0 (all readings 100 give [90, 110], all readings
\* 0 give [-10, 10]); otherwise both ends are padded by 10% of (max - min).
C16_VoltageDomain ==
    LET all == LoadedVoltages(1)
        lo == CHOOSE v \in all : \A w \in all : v <= w
        hi == CHOOSE v \in all : \A w \in all : w <= v
        domain == chart[1].voltageDomain
    IN /\ all = {} => domain = [min |-> InTenths(0), max |-> InTenths(100)]
       /\ all # {} /\ lo = hi /\ lo # 0 =>
              /\ domain.min = InTenths(lo) - TenPercentOf(lo)
              /\ domain.max = InTenths(hi) + TenPercentOf(lo)
       /\ all # {} /\ lo = hi /\ lo = 0 =>
              /\ domain.min = InTenths(lo) - InTenths(10)
              /\ domain.max = InTenths(hi) + InTenths(10)
       /\ all # {} /\ lo # hi =>
              /\ domain.min = InTenths(lo) - TenPercentOf(hi - lo)
              /\ domain.max = InTenths(hi) + TenPercentOf(hi - lo)
       /\ all = {100} => domain = [min |-> InTenths(90), max |-> InTenths(110)]
       /\ all = {0} => domain = [min |-> InTenths(-10), max |-> InTenths(10)]

\* C16 witness: two transformers with one reading of 100 each, and the chart
\* rendered after a search has the domain [90, 110]
C16_Witness ==
    /\ last.op = "TransformerChart"
    /\ last.prevOp = "setTableSearch"
    /\ Len(transformers[1]) = 2
    /\ \A i \in 1..2 : Len(transformers[1][i].lastTenVoltageReadings) = 1
    /\ LoadedVoltages(1) = {100}
    /\ chart[1].voltageDomain = [min |-> 900, max |-> 1100]

\* C17: the y-axis ceiling is the padded maximum of the domain rounded up to a
\* multiple of 5000: it is a multiple of 5000, it is not below the padded
\* maximum, it exceeds it by less than 5000, and a padded maximum that is a
\* multiple of 5000 is kept (10700 gives 15000, 10000 gives 10000).
C17_AxisCeiling ==
    LET max == chart[1].voltageDomain.max
        ceiling == chart[1].yAxisMax
    IN /\ ceiling % 5000 = 0
       /\ InTenths(ceiling) >= max
       /\ InTenths(ceiling) - max < InTenths(5000)
       /\ max % InTenths(5000) = 0 => InTenths(ceiling) = max
       /\ max = InTenths(10700) => ceiling = 15000
       /\ max = InTenths(10000) => ceiling = 10000

\* C17 witness: readings 8900 and 9900 pad to a maximum of exactly 10000, and the
\* ceiling of the chart rendered after a toggle is 10000
C17_Witness ==
    /\ last.op = "TransformerChart"
    /\ last.prevOp = "toggleTransformerSelection"
    /\ LoadedVoltages(1) = {8900, 9900}
    /\ chart[1].voltageDomain.max = InTenths(10000)
    /\ chart[1].yAxisMax = 10000

\* C18: across setTableSearch, setHealthFilter, toggleTransformerSelection,
\* setSelectedTransformerIds, setHoveredTransformer and hydrateFromStorage, every
\* rendering of the chart has the voltage domain and the y-axis ceiling of the
\* rendering before it, hence of the one after the initial load, whatever is
\* filtered out or deselected.
C18_DomainStable ==
    [][ /\ last'.op \in PersistedOps \cup {"setHoveredTransformer", "hydrateFromStorage",
                                           "TransformerChart"}
        /\ chart'[1].voltageDomain = chart[1].voltageDomain
        /\ chart'[1].yAxisMax = chart[1].yAxisMax ]_vars

\* C18 witness: the chart is rendered after a search has filtered out a
\* transformer whose readings set an end of the domain; the remaining one alone
\* would give another domain
C18_Witness ==
    /\ last.op = "TransformerChart"
    /\ last.prevOp = "setTableSearch"
    /\ Len(filteredTransformers(1)) = 1
    /\ Len(transformers[1]) = 2
    /\ allVoltages(filteredTransformers(1)) # <<>>
    /\ voltageDomain(filteredTransformers(1)) # chart[1].voltageDomain
    /\ yAxisMax(voltageDomain(filteredTransformers(1))) # chart[1].yAxisMax

\* the indices, in the filtered list, of the selected transformers
ShownIn(filtered, ids) ==
    { i \in 1..Len(filtered) : filtered[i].assetId \in SetOf(ids) }

ShownAt(t) == ShownIn(filteredTransformers(t), selectedTransformerIds[t])

\* C19: as rendered from the store, the chart has one series for each transformer that is in the filtered
\* list and selected, in the order of the filtered list; every series has one
\* entry per timestamp of the x-axis, and the entry for a timestamp is the
\* voltage of a reading of that transformer with exactly that timestamp, or null
\* (a gap, not the number 0) when the transformer has no such reading.
C19_SeriesConstruction ==
    LET filtered == filteredTransformers(1)
        series == chart[1].datasets
        axis == chart[1].sortedTimestamps
        shown == ShownIn(filtered, selectedTransformerIds[1])
    IN last.op \in {"TransformerChart", "useTransformerStore"} =>
       /\ Len(series) = Cardinality(shown)
       /\ \A n \in 1..Len(series) :
              LET i == CHOOSE j \in shown : Cardinality({m \in shown : m <= j}) = n
                  readings == filtered[i].lastTenVoltageReadings
              IN /\ series[n].label = filtered[i].name
                 /\ Len(series[n].data) = Len(axis)
                 /\ \A k \in 1..Len(axis) :
                        LET at == {r \in SetOf(readings) : r.timestamp = axis[k]}
                        IN IF at = {}
                           THEN series[n].data[k].isNull
                           ELSE /\ ~series[n].data[k].isNull
                                /\ \E r \in at : series[n].data[k].value = r.voltage

\* C19 witness: the first filtered transformer, whose timestamps make the axis,
\* is deselected; the one series is of the second, which has a reading of 0 volts
\* at the first timestamp (drawn as 0) and none at the second (drawn as a gap)
C19_Witness ==
    /\ last.op = "TransformerChart"
    /\ last.prevOp = "toggleTransformerSelection"
    /\ Len(filteredTransformers(1)) = 2
    /\ ShownAt(1) = {2}
    /\ Len(chart[1].sortedTimestamps) = 2
    /\ Len(chart[1].datasets) = 1
    /\ chart[1].datasets[1].data = <<Point(0), NullPoint>>

\* the last operation was a persisted mutation and the stored item is not the
\* state of its tab: the write did not happen
WriteFailed ==
    /\ last.op \in PersistedOps
    /\ item # persistState(selectedTransformerIds[last.tab], tableSearch[last.tab],
                            healthFilter[last.tab])

\* the refs of the tab hold what the last persisted mutation was called with
MemoryReflectsMutation ==
    LET t == last.tab IN
    /\ last.op = "setTableSearch" => tableSearch[t] = last.arg
    /\ last.op = "setHealthFilter" => healthFilter[t] = last.arg
    /\ last.op = "setSelectedTransformerIds" => selectedTransformerIds[t] = last.arg
    /\ last.op = "toggleTransformerSelection" =>
           (last.id \in SetOf(selectedTransformerIds[t])) #
               (last.id \in SetOf(last.preIds))

\* C20: a failure of the write to localStorage during a persisted mutation is not
\* fatal: the refs of the tab hold the new value, and the operation returns to
\* its caller without an exception.
C20_WriteFailureNonFatal ==
    WriteFailed => MemoryReflectsMutation /\ ~last.threw

\* what does hold after a failed write: the refs hold the new value
MemoryKeptAfterFailedWrite ==
    WriteFailed => MemoryReflectsMutation

-----------------------------------------------------------------------------
(* Two tabs that start with nothing stored, every order of their changes and  *)
(* of the handling of the storage events                                      *)

RaceSearchInputs == { <<"c","r","i","t">> }
RaceHealthInputs == { Critical }
RaceToggleInputs == { 1 }
RaceSelectionInputs == { <<2>> }

InitRace == InitStores({1, 2}, {NoItem})

NextRace ==
    \/ /\ nops < MaxRaceOps
       /\ \/ \E t \in open, search \in RaceSearchInputs : setTableSearch(t, search)
          \/ \E t \in open, filter \in RaceHealthInputs : setHealthFilter(t, filter)
          \/ \E t \in open, assetId \in RaceToggleInputs :
                 toggleTransformerSelection(t, assetId)
          \/ \E t \in open, ids \in RaceSelectionInputs :
                 setSelectedTransformerIds(t, ids)
    \/ \E t \in open : onStorage(t)

SpecRace == InitRace /\ [][NextRace]_vars

-----------------------------------------------------------------------------
(* Two tabs that start with nothing stored, and the gestures of their views   *)
(* that change the selection or the filter                                    *)

GestureSearchInputs == { <<"c","r","i","t">> }
GestureHealthInputs == { Good }

InitGestures == InitStores({1, 2}, {NoItem})

NextGestures ==
    \/ /\ nops < MaxGestureOps
       /\ \/ \E t \in open : \E assetId \in LoadedIds(t) : onRowClick(t, assetId)
          \/ \E t \in open : \E assetId \in LoadedIds(t) :
                 onToggleTransformer(t, assetId)
          \/ \E t \in open : toggleSelectAll(t)
          \/ \E t \in open, search \in GestureSearchInputs : setTableSearch(t, search)
          \/ \E t \in open, filter \in GestureHealthInputs : setHealthFilter(t, filter)
    \/ \E t \in open : onStorage(t)

SpecGestures == InitGestures /\ [][NextGestures]_vars

-----------------------------------------------------------------------------
(* The colours of the chart *)

\* the positions, among the checkboxes below the chart of tab t, of the checked
\* ones: these transformers have a line, in this order
CheckedBoxes(t) ==
    { i \in 1..Len(chart[t].checkboxes) : chart[t].checkboxes[i].modelValue }

\* C21: for every transformer that has a line in the chart, the colour of its
\* checkbox below the chart is the colour of its line, whatever is filtered and
\* selected.
C21_CheckboxMatchesLine ==
    LET boxes == chart[1].checkboxes
        lines == chart[1].datasets
        checked == CheckedBoxes(1)
    IN \A n \in 1..Len(lines) :
           \A i \in checked :
               Cardinality({m \in checked : m <= i}) = n =>
                   boxes[i].borderColor = lines[n].baseColor

\* C27: as rendered from the store, the chart widget is shown exactly when some
\* transformer of the filtered list is selected, and the empty state otherwise;
\* a chart that is shown has at least one series, and with nothing selected the
\* empty state is shown.
C27_ChartOrEmptyState ==
    last.op \in {"TransformerChart", "useTransformerStore"} =>
        /\ chart[1].hasSelectedFilteredTransformers <=> ShownAt(1) # {}
        /\ chart[1].hasSelectedFilteredTransformers => Len(chart[1].datasets) >= 1
        /\ ~chart[1].hasSelectedFilteredTransformers => chart[1].datasets = <<>>
        /\ selectedTransformerIds[1] = <<>> =>
               ~chart[1].hasSelectedFilteredTransformers

\* C27 witness: a search has filtered out every selected transformer, and the
\* rendering after it shows the empty state although the selection is not empty
C27_Witness ==
    /\ last.op = "TransformerChart"
    /\ last.prevOp = "setTableSearch"
    /\ selectedTransformerIds[1] # <<>>
    /\ ShownAt(1) = {}
    /\ ~chart[1].hasSelectedFilteredTransformers
    /\ chart[1].datasets = <<>>

-----------------------------------------------------------------------------
(* The x-axis of the chart *)

\* the timestamps of the readings of the first transformer of a list
TimestampsOfFirst(filtered) ==
    IF filtered = <<>> THEN {}
    ELSE { filtered[1].lastTenVoltageReadings[k].timestamp :
               k \in 1..Len(filtered[1].lastTenVoltageReadings) }

\* an array of strings in ascending order
Ascending(arr) == \A k \in 1..(Len(arr) - 1) : ~lessThan(arr[k + 1], arr[k])

\* an array without a repeated element
Unique(arr) == \A j, k \in 1..Len(arr) : j # k => arr[j] # arr[k]

\* C28: whenever the chart is rendered, the x-axis holds the timestamps of the
\* first transformer of the filtered list, in ascending order and each at most
\* once; it is empty when the filtered list is empty, and the selection plays no
\* part.
C28_AxisOfFirstFiltered ==
    LET axis == chart[1].sortedTimestamps
        filtered == filteredTransformers(1)
    IN last.op = "TransformerChart" =>
           /\ filtered = <<>> => axis = <<>>
           /\ SetOf(axis) = TimestampsOfFirst(filtered)
           /\ Ascending(axis)
           /\ Unique(axis)

\* what the x-axis is whatever the readings: the timestamps of the readings of
\* the first filtered transformer, one entry per reading, in ascending order
AxisHasOneEntryPerReading ==
    LET axis == chart[1].sortedTimestamps
        filtered == filteredTransformers(1)
    IN last.op \in {"TransformerChart", "useTransformerStore"} =>
           /\ filtered = <<>> => axis = <<>>
           /\ SetOf(axis) = TimestampsOfFirst(filtered)
           /\ Ascending(axis)
           /\ filtered # <<>> => Len(axis) = Len(filtered[1].lastTenVoltageReadings)

-----------------------------------------------------------------------------
(* The orientation of the voltage domain *)

\* C29: whenever the chart is rendered over at least one reading (all readings
\* equal, a single one, zero or negative ones included), the voltage domain has
\* min < max and every reading lies strictly between min and max.
C29_DomainNonDegenerate ==
    LET all == LoadedVoltages(1)
        domain == chart[1].voltageDomain
    IN last.op = "TransformerChart" /\ all # {} =>
           /\ domain.min < domain.max
           /\ \A v \in all : domain.min < InTenths(v) /\ InTenths(v) < domain.max

\* the same over readings that are not all one negative value
DomainNonDegenerateUnlessNegative ==
    LET all == LoadedVoltages(1)
        domain == chart[1].voltageDomain
    IN all # {} /\ ~(\E v \in all : v < 0 /\ all = {v}) =>
           /\ domain.min < domain.max
           /\ \A v \in all : domain.min < InTenths(v) /\ InTenths(v) < domain.max

-----------------------------------------------------------------------------
(* Two tabs changing different fields *)

\* the persisted field that a mutation assigns
FieldOfOp(op) ==
    IF op = "setTableSearch" THEN "tableSearch"
    ELSE IF op = "setHealthFilter" THEN "healthFilter"
    ELSE "selectedTransformerIds"

\* tab A (last.prevTab) changed one persisted field and then tab B (last.tab)
\* changed another; last.preItem is what A stored
ChangedAfterOtherTab ==
    /\ last.op \in PersistedOps
    /\ last.prevOp \in PersistedOps
    /\ last.prevTab # last.tab
    /\ FieldOfOp(last.op) # FieldOfOp(last.prevOp)

\* the stored item still holds, for the field A changed, the value A stored
KeepsChangeOfA ==
    memberTokens(item, FieldOfOp(last.prevOp)) =
        memberTokens(last.preItem, FieldOfOp(last.prevOp))

\* C22 as claimed: when tab A changed one persisted field and tab B then changed
\* a different one, B having processed A's storage event or not, A's change is
\* not replaced in the store by an older value of its field; the tabs, which all
\* take the values of the store once the storage events are delivered, then
\* hold both changes.
C22_BothChangesKept == ChangedAfterOtherTab => KeepsChangeOfA

\* the persisted fields
PersistedFields == {"selectedTransformerIds", "tableSearch", "healthFilter"}

\* C22 as amended: when a tab changes a persisted field after another tab wrote
\* last, the whole state of the changing tab is stored: every other field of
\* the store takes the value that tab held, so a change of the other tab is
\* kept if the changing tab had handled every storage event, and is otherwise
\* replaced by the older value of the changing tab (which every tab then takes
\* from the store).
C22_LastWriteOverwrites ==
    [][ (last'.op \in PersistedOps /\ lastWriter \in open /\ lastWriter # last'.tab) =>
            LET B == last'.tab
                held == persistState(selectedTransformerIds[B], tableSearch[B],
                                     healthFilter[B])
            IN /\ localStorage'[STORAGE_KEY] =
                      persistState(selectedTransformerIds'[B], tableSearch'[B],
                                   healthFilter'[B])
               /\ \A f \in PersistedFields \ {FieldOfOp(last'.op)} :
                      /\ memberTokens(localStorage'[STORAGE_KEY], f) =
                             memberTokens(held, f)
                      /\ pending[B] = <<>> =>
                             memberTokens(localStorage'[STORAGE_KEY], f) =
                                 memberTokens(item, f) ]_vars

\* C22 witness: B changed the health filter before it handled the storage event
\* of A's search, and the search that A stored is gone from the store
C22_Witness ==
    /\ ChangedAfterOtherTab
    /\ last.prevOp = "setTableSearch"
    /\ last.op = "setHealthFilter"
    /\ pending[last.tab] # <<>>
    /\ StoredSearch(last.preItem) = <<"c","r","i","t">>
    /\ StoredSearch(item) # <<"c","r","i","t">>

-----------------------------------------------------------------------------
(* No notification answers a notification *)

\* the storage events that the tabs have not handled yet
RECURSIVE PendingIn(_)
PendingIn(tabs) ==
    IF tabs = {} THEN 0
    ELSE LET t == CHOOSE u \in tabs : TRUE
         IN Len(pending[t]) + PendingIn(tabs \ {t})

\* C25: a hydrate leaves localStorage as it is and sends no tab a storage event:
\* handling a storage event takes one event away and adds none, and only a
\* persisted mutation of a user adds events. After the last user gesture the
\* hydrates are therefore at most as many as the pending events, and then no
\* event is pending.
C25_HydrateSendsNothing ==
    [][ /\ last'.op = "hydrateFromStorage" =>
               /\ localStorage' = localStorage
               /\ lastWriter' = lastWriter
               /\ \A t \in Tabs : Len(pending'[t]) <= Len(pending[t])
               /\ PendingIn(Tabs)' = PendingIn(Tabs) - 1
        /\ PendingIn(Tabs)' > PendingIn(Tabs) => last'.op \in PersistedOps
        /\ last'.op \notin PersistedOps => PendingIn(Tabs)' < PendingIn(Tabs) ]_vars

\* C25 witness: a tab has hydrated what another tab wrote, its values changed,
\* and no storage event is pending any more
C25_Witness ==
    /\ last.op = "hydrateFromStorage"
    /\ last.prevOp \in PersistedOps
    /\ last.prevTab # last.tab
    /\ lastWriter = last.prevTab
    /\ selectedTransformerIds[last.tab] # last.preIds
    /\ Quiescent

-----------------------------------------------------------------------------
(* The filter criteria and the selection *)

\* C23: setTableSearch(text) stores text as it is, neither trimmed nor changed
\* in case (so a text of white space is a search, not the empty one), and
\* setHealthFilter(v) stores v; neither changes selectedTransformerIds or
\* hoveredTransformerId, so what is selected among the transformers filtered out
\* stays selected and is there again when the filter is cleared.
C23_FilterKeepsSelection ==
    [][ /\ last'.op = "setTableSearch" =>
               /\ tableSearch'[last'.tab] = last'.arg
               /\ healthFilter' = healthFilter
        /\ last'.op = "setHealthFilter" =>
               /\ healthFilter'[last'.tab] = last'.arg
               /\ tableSearch' = tableSearch
        /\ last'.op \in {"setTableSearch", "setHealthFilter"} =>
               /\ selectedTransformerIds' = selectedTransformerIds
               /\ hoveredTransformerId' = hoveredTransformerId
               /\ StoredIds(localStorage'[STORAGE_KEY]) =
                      selectedTransformerIds[last'.tab] ]_vars

\* C23 witness: with transformers 1 and 3 selected and the pointer on row 1, a
\* search for one space is stored as one space and filters every row out; the
\* selection and the hover pointer are as they were
C23_Witness ==
    /\ last.op = "setTableSearch"
    /\ last.arg = <<" ">>
    /\ tableSearch[1] = <<" ">>
    /\ filteredTransformers(1) = <<>>
    /\ hoveredTransformerId[1] = 1
    /\ SetOf(selectedTransformerIds[1]) = {1, 3}
    /\ selectedTransformerIds[1] = last.preIds

-----------------------------------------------------------------------------
(* The hover pointer of the table *)

\* C24: whatever the order of mouse-enter, mouse-leave, row click, checkbox
\* toggle and select-all, hoveredTransformerId is none or the id of a selected
\* transformer.
C24_HoverIsSelected ==
    \/ hoveredTransformerId[1] = NullId
    \/ arrayIncludes(selectedTransformerIds[1], hoveredTransformerId[1])

\* what the handlers do keep: the pointer is set on a row that is selected at
\* that time and to nothing else, and a mouse-leave resets it
HoverSetOnSelectedRow ==
    [][ /\ hoveredTransformerId'[1] \notin {NullId, hoveredTransformerId[1]} =>
               arrayIncludes(selectedTransformerIds[1], hoveredTransformerId'[1])
        /\ (last'.op = "setHoveredTransformer" /\ last'.id = NullId) =>
               hoveredTransformerId'[1] = NullId ]_vars

-----------------------------------------------------------------------------
(* The selection as a set of loaded ids *)

\* C26: from stores constructed with nothing stored, through row clicks,
\* checkbox toggles, select-all toggles, search and health changes and the
\* hydrates of what the tabs wrote, selectedTransformerIds of every tab holds
\* only asset ids of loaded transformers and holds no id twice.
C26_SelectionWellFormed ==
    \A t \in open :
        /\ SetOf(selectedTransformerIds[t]) \subseteq LoadedIds(t)
        /\ Unique(selectedTransformerIds[t])

\* C26 witness: under a filter, a tab selected all the visible rows on top of
\* what was selected among the hidden ones, and the other tab has hydrated that
\* selection
C26_Witness ==
    /\ last.op = "hydrateFromStorage"
    /\ last.prevOp = "setSelectedTransformerIds"
    /\ last.prevTab # last.tab
    /\ Len(filteredTransformers(last.prevTab)) < Len(transformers[last.prevTab])
    /\ selectedTransformerIds[last.tab] = selectedTransformerIds[last.prevTab]
    /\ Len(selectedTransformerIds[last.tab]) > Len(filteredTransformers(last.prevTab))
    /\ Quiescent

====
